---- MODULE Spec2Model ----
(***************************************************************************)
(* MobSF-MCP: an MCP server (src/src/index.ts, compiled twin in            *)
(* src/unnamed/part_000) that maps tool calls onto the REST API of a MobSF *)
(* backend through MobSFClient (src/src/index.ts:565-981, compiled twin    *)
(* src/build/mobsf.js).                                                    *)
(*                                                                         *)
(* A JavaScript string is modelled as a Text: a sequence of fragments, a   *)
(* fragment being a run of characters.  Concatenation and template         *)
(* literals are \o.  The characters JSON gives a meaning to (braces,       *)
(* brackets, colon, comma, quote, backslash, newline, blank) are always    *)
(* fragments of their own, so that JSON.stringify and JSON.parse work on   *)
(* the characters they work on in the program.                             *)
(***************************************************************************)
EXTENDS Integers, Sequences, FiniteSets, TLC

(***************************************************************************)
(* JavaScript values                                                       *)
(***************************************************************************)
Undefined == [t |-> "undefined"]
Null == [t |-> "null"]
Bool(b) == [t |-> "boolean", b |-> b]
Num(n) == [t |-> "number", n |-> n]
Str(s) == [t |-> "string", s |-> s]
Arr(items) == [t |-> "array", items |-> items]
\* members: the own enumerable properties, <<key, value>> in property order
Obj(members) == [t |-> "object", members |-> members]
\* a node Buffer holding raw bytes
Buf(bytes) == [t |-> "buffer", bytes |-> bytes]
\* a function object, e.g. one inherited from Object.prototype
Fun == [t |-> "function"]

\* typeof v === 'string'
IsString(v) == v.t = "string"

\* ToBoolean(v): the falsy values are undefined, null, false, 0 and ""
Truthy(v) ==
  CASE v.t = "undefined" -> FALSE
    [] v.t = "null" -> FALSE
    [] v.t = "boolean" -> v.b
    [] v.t = "number" -> v.n # 0
    [] v.t = "string" -> v.s # <<>>
    [] OTHER -> TRUE

\* largest number the JSON routines read and write
MaxNum == 255

\* the decimal numerals of the numbers 0..MaxNum
Numerals == [n \in 0..MaxNum |-> ToString(n)]
NumberFragments == {Numerals[n] : n \in 0..MaxNum}
IsNumberFragment(f) == f \in NumberFragments
NumberOfFragment(f) == CHOOSE n \in 0..MaxNum : Numerals[n] = f

\* the canonical array indices "0", "1", ... as property keys
IsIndexKey(k) == Len(k) = 1 /\ IsNumberFragment(k[1])
IndexOfKey(k) == NumberOfFragment(k[1])

KeysOf(members) == [i \in 1..Len(members) |-> members[i][1]]
HasOwn(members, k) == \E i \in 1..Len(members) : members[i][1] = k
OwnValue(members, k) ==
  members[CHOOSE i \in 1..Len(members) : members[i][1] = k][2]

\* Property creation order of an ordinary object: index keys ascending
\* first, then the other keys in creation order; assigning to an existing
\* key keeps its place.
SetProp(members, k, v) ==
  IF HasOwn(members, k)
  THEN [i \in 1..Len(members) |->
          IF members[i][1] = k THEN <<k, v>> ELSE members[i]]
  ELSE IF IsIndexKey(k)
  THEN LET before == SelectSeq(members, LAMBDA m :
                        IsIndexKey(m[1]) /\ IndexOfKey(m[1]) < IndexOfKey(k))
           after == SelectSeq(members, LAMBDA m :
                        ~(IsIndexKey(m[1]) /\ IndexOfKey(m[1]) < IndexOfKey(k)))
       IN  before \o << <<k, v>> >> \o after
  ELSE Append(members, <<k, v>>)

\* the names every object inherits from Object.prototype (a sample)
ObjectPrototypeKeys ==
  { <<"constructor">>, <<"toString">>, <<"valueOf">>, <<"hasOwnProperty">> }

\* a thrown TypeError / SyntaxError
TypeError == [name |-> "TypeError"]
SyntaxError == [name |-> "SyntaxError"]
Threw(e) == [threw |-> TRUE, error |-> e]
Returned(v) == [threw |-> FALSE, value |-> v]

\* data[key]: own property, else the prototype chain, else undefined;
\* reading a property of null or undefined throws.
GetProp(data, key) ==
  CASE data.t \in {"null", "undefined"} -> Threw(TypeError)
    [] data.t = "object" ->
         IF HasOwn(data.members, key)
         THEN Returned(OwnValue(data.members, key))
         ELSE IF key \in ObjectPrototypeKeys THEN Returned(Fun)
         ELSE Returned(Undefined)
    [] data.t = "array" ->
         IF IsIndexKey(key) /\ IndexOfKey(key) < Len(data.items)
         THEN Returned(data.items[IndexOfKey(key) + 1])
         ELSE IF key = <<"length">> THEN Returned(Num(Len(data.items)))
         ELSE IF key = <<"map">> \/ key \in ObjectPrototypeKeys
         THEN Returned(Fun)
         ELSE Returned(Undefined)
    [] data.t \in {"number", "boolean"} ->
         IF key \in ObjectPrototypeKeys THEN Returned(Fun)
         ELSE Returned(Undefined)

\* Object.keys(data)
ObjectKeys(data) ==
  CASE data.t \in {"null", "undefined"} -> Threw(TypeError)
    [] data.t = "object" -> Returned(KeysOf(data.members))
    [] data.t = "array" ->
         Returned([i \in 1..Len(data.items) |-> <<ToString(i - 1)>>])
    [] data.t \in {"number", "boolean"} -> Returned(<<>>)

(***************************************************************************)
(* JSON.stringify(value, null, 2)                                          *)
(***************************************************************************)
RECURSIVE Indent(_)
Indent(d) == IF d = 0 THEN <<>> ELSE <<"  ">> \o Indent(d - 1)
NewLine(d) == <<"\n">> \o Indent(d)

\* QuoteJSONString: the characters that are escaped inside a string literal
EscapeFragment(f) ==
  CASE f = "\"" -> <<"\\", "\"">>
    [] f = "\\" -> <<"\\", "\\">>
    [] f = "\n" -> <<"\\", "n">>
    [] OTHER -> <<f>>

RECURSIVE Escape(_)
Escape(s) == IF s = <<>> THEN <<>> ELSE EscapeFragment(Head(s)) \o Escape(Tail(s))
Quote(s) == <<"\"">> \o Escape(s) \o <<"\"">>

\* values JSON.stringify leaves out of objects and writes as null in arrays
Serializable(v) == v.t \notin {"undefined", "function"}

\* Buffer.prototype.toJSON
BufferToJSON(v) ==
  Obj(<< << <<"type">>, Str(<<"Buffer">>) >>,
         << <<"data">>, Arr([i \in 1..Len(v.bytes) |-> Num(v.bytes[i])]) >> >>)

RECURSIVE Serialize(_, _), SerializeItems(_, _, _), SerializeMembers(_, _, _)
Serialize(v, d) ==
  CASE v.t = "null" -> <<"null">>
    [] v.t = "boolean" -> IF v.b THEN <<"true">> ELSE <<"false">>
    [] v.t = "number" -> <<ToString(v.n)>>
    [] v.t = "string" -> Quote(v.s)
    [] v.t = "buffer" -> Serialize(BufferToJSON(v), d)
    [] v.t = "array" ->
         IF v.items = <<>> THEN <<"[", "]">>
         ELSE <<"[">> \o SerializeItems(v.items, 1, d + 1) \o NewLine(d) \o <<"]">>
    [] v.t = "object" ->
         LET ms == SelectSeq(v.members, LAMBDA m : Serializable(m[2]))
         IN  IF ms = <<>> THEN <<"{", "}">>
             ELSE <<"{">> \o SerializeMembers(ms, 1, d + 1) \o NewLine(d) \o <<"}">>

SerializeItems(items, i, d) ==
  IF i > Len(items) THEN <<>>
  ELSE (IF i > 1 THEN <<",">> ELSE <<>>) \o NewLine(d)
       \o (IF Serializable(items[i]) THEN Serialize(items[i], d) ELSE <<"null">>)
       \o SerializeItems(items, i + 1, d)

SerializeMembers(ms, i, d) ==
  IF i > Len(ms) THEN <<>>
  ELSE (IF i > 1 THEN <<",">> ELSE <<>>) \o NewLine(d)
       \o Quote(ms[i][1]) \o <<":", " ">> \o Serialize(ms[i][2], d)
       \o SerializeMembers(ms, i + 1, d)

\* JSON.stringify(v, null, 2): a string, or undefined for undefined/function
JSONstringify(v) == IF Serializable(v) THEN Str(Serialize(v, 0)) ELSE Undefined

(***************************************************************************)
(* JSON.parse(text)                                                        *)
(***************************************************************************)
WhiteSpace == {"\n", " ", "  "}
ParseFail == [ok |-> FALSE]
ParseOk(v, i) == [ok |-> TRUE, v |-> v, i |-> i]

RECURSIVE SkipWs(_, _)
SkipWs(toks, i) ==
  IF i <= Len(toks) /\ toks[i] \in WhiteSpace THEN SkipWs(toks, i + 1) ELSE i

\* Max of a non-empty set of integers
MaxOf(S) == CHOOSE m \in S : \A n \in S : n <= m

\* inside a string literal that starts at i: is the fragment at j preceded
\* by an odd run of backslashes, i.e. is it the second half of an escape
IsEscaped(toks, i, j) ==
  /\ j > i
  /\ toks[j - 1] = "\\"
  /\ LET k == MaxOf({i - 1} \cup {q \in i..(j - 1) : toks[q] # "\\"})
     IN  (j - 1 - k) % 2 = 1

\* position of the quote that closes the string literal whose characters
\* start at j, 0 when there is none; an escape is skipped as a pair
RECURSIVE ClosingQuote(_, _)
ClosingQuote(toks, j) ==
  IF j > Len(toks) THEN 0
  ELSE IF toks[j] = "\"" THEN j
  ELSE IF toks[j] = "\\" THEN ClosingQuote(toks, j + 2)
  ELSE ClosingQuote(toks, j + 1)

\* the characters of a string literal, from position i (after the opening
\* quote) to the closing quote
ParseString(toks, i) ==
  LET close == ClosingQuote(toks, i) IN
  IF close = 0 THEN ParseFail
  ELSE LET body == [q \in 1..(close - i) |-> i + q - 1]
           escaped == [q \in 1..(close - i) |-> IsEscaped(toks, i, i + q - 1)]
           kept == SelectSeq(body, LAMBDA p :
                     escaped[p - i + 1] \/ toks[p] # "\\")
       IN  IF \E q \in 1..Len(body) :
                IF escaped[q]
                THEN toks[body[q]] \notin {"n", "\"", "\\"}
                ELSE toks[body[q]] = "\n"
           THEN ParseFail
           ELSE ParseOk([q \in 1..Len(kept) |->
                          IF escaped[kept[q] - i + 1] /\ toks[kept[q]] = "n"
                          THEN "\n" ELSE toks[kept[q]]],
                        close + 1)

RECURSIVE ParseValue(_, _), ParseElements(_, _, _), ParseMembers(_, _, _)
ParseValue(toks, i0) ==
  LET ValueAt(i) ==
        IF i > Len(toks) THEN ParseFail
        ELSE CASE toks[i] = "null" -> ParseOk(Null, i + 1)
               [] toks[i] = "true" -> ParseOk(Bool(TRUE), i + 1)
               [] toks[i] = "false" -> ParseOk(Bool(FALSE), i + 1)
               [] toks[i] = "\"" ->
                    LET Literal(r) == IF r.ok THEN ParseOk(Str(r.v), r.i) ELSE ParseFail
                    IN  Literal(ParseString(toks, i + 1))
               [] toks[i] = "[" ->
                    LET ArrayFrom(j) ==
                          IF j <= Len(toks) /\ toks[j] = "]"
                          THEN ParseOk(Arr(<<>>), j + 1)
                          ELSE ParseElements(toks, j, <<>>)
                    IN  ArrayFrom(SkipWs(toks, i + 1))
               [] toks[i] = "{" ->
                    LET ObjectFrom(j) ==
                          IF j <= Len(toks) /\ toks[j] = "}"
                          THEN ParseOk(Obj(<<>>), j + 1)
                          ELSE ParseMembers(toks, j, <<>>)
                    IN  ObjectFrom(SkipWs(toks, i + 1))
               [] OTHER ->
                    IF IsNumberFragment(toks[i])
                    THEN ParseOk(Num(NumberOfFragment(toks[i])), i + 1)
                    ELSE ParseFail
  IN  ValueAt(SkipWs(toks, i0))

\* element (',' element)* ']'
ParseElements(toks, i, acc) ==
  LET AfterElement(r) ==
        IF ~r.ok THEN ParseFail
        ELSE LET Separator(j) ==
                   IF j > Len(toks) THEN ParseFail
                   ELSE IF toks[j] = "]" THEN ParseOk(Arr(Append(acc, r.v)), j + 1)
                   ELSE IF toks[j] = ","
                   THEN ParseElements(toks, j + 1, Append(acc, r.v))
                   ELSE ParseFail
             IN  Separator(SkipWs(toks, r.i))
  IN  AfterElement(ParseValue(toks, i))

\* member (',' member)* '}' with member = string ':' value
ParseMembers(toks, i0, acc) ==
  LET MemberEnd(ms, j) ==
        IF j > Len(toks) THEN ParseFail
        ELSE IF toks[j] = "}" THEN ParseOk(Obj(ms), j + 1)
        ELSE IF toks[j] = "," THEN ParseMembers(toks, j + 1, ms)
        ELSE ParseFail
      MemberValue(k, r) ==
        IF ~r.ok THEN ParseFail
        ELSE MemberEnd(SetProp(acc, k.v, r.v), SkipWs(toks, r.i))
      Colon(k, c) ==
        IF c > Len(toks) \/ toks[c] # ":" THEN ParseFail
        ELSE MemberValue(k, ParseValue(toks, c + 1))
      MemberKey(k) == IF ~k.ok THEN ParseFail ELSE Colon(k, SkipWs(toks, k.i))
      MemberAt(i) ==
        IF i > Len(toks) \/ toks[i] # "\"" THEN ParseFail
        ELSE MemberKey(ParseString(toks, i + 1))
  IN  MemberAt(SkipWs(toks, i0))

\* JSON.parse(text): the value, or a thrown SyntaxError
JSONparse(text) ==
  LET Whole(r) ==
        IF r.ok /\ SkipWs(text, r.i) > Len(text) THEN Returned(r.v)
        ELSE Threw(SyntaxError)
  IN  Whole(ParseValue(text, 1))

(***************************************************************************)
(* MobSFClient: the request description each method hands to axios         *)
(***************************************************************************)
\* new MobSFClient(baseUrl, apiKey)
\* the constructor storing the base URL as given
MobSFClient_keepsSlash(baseUrl, apiKey) ==
  [baseUrl |-> baseUrl, apiKey |-> apiKey]

MobSFClient(baseUrl, apiKey) ==
  [baseUrl |-> IF baseUrl # <<>> /\ baseUrl[Len(baseUrl)] = "/"
               THEN SubSeq(baseUrl, 1, Len(baseUrl) - 1)
               ELSE baseUrl,
   apiKey |-> apiKey]

createMobSFClient(baseUrl, apiKey) == MobSFClient(baseUrl, apiKey)

\* an AxiosRequestConfig; fields the method leaves out are Undefined
RequestConfig(url, method, headers, data, params, responseType) ==
  [url |-> url, method |-> method, headers |-> headers, data |-> data,
   params |-> params, responseType |-> responseType]

FormContentType == <<"application/x-www-form-urlencoded">>

\* only the backend-specific key header
AuthHeaders_single(this) == "X-Mobsf-Api-Key" :> this.apiKey

\* the two authentication headers every method writes out
AuthHeaders(this) ==
  ("Authorization" :> this.apiKey) @@ ("X-Mobsf-Api-Key" :> this.apiKey)

\* the url-encoded POST methods announcing a JSON body
FormHeaders_json(this) ==
  AuthHeaders(this) @@ ("Content-Type" :> <<"application/json">>)

\* the headers object of the url-encoded POST methods
FormHeaders(this) == AuthHeaders(this) @@ ("Content-Type" :> FormContentType)

\* application/x-www-form-urlencoded serialisation of one character run
FormEncodeFragment(f) ==
  CASE f = "/" -> "%2F"
    [] f = " " -> "+"
    [] f = "&" -> "%26"
    [] f = "=" -> "%3D"
    [] OTHER -> f
FormEncode(s) == [i \in 1..Len(s) |-> FormEncodeFragment(s[i])]

\* URLSearchParams.toString() of the appended name/value pairs
RECURSIVE URLSearchParamsToString(_)
URLSearchParamsToString(fields) ==
  IF fields = <<>> THEN <<>>
  ELSE FormEncode(fields[1][1]) \o <<"=">> \o FormEncode(fields[1][2])
       \o (IF Len(fields) > 1 THEN <<"&">> ELSE <<>>)
       \o URLSearchParamsToString(Tail(fields))

\* the shape shared by the url-encoded POST methods
FormPost(this, path, fields) ==
  RequestConfig(this.baseUrl \o path, "POST", FormHeaders(this),
                Str(URLSearchParamsToString(fields)), Undefined, Undefined)

createRequestConfig(this, path, method, data, headers, params) ==
  RequestConfig(this.baseUrl \o path, method,
                headers @@ AuthHeaders(this)
                  @@ ("Content-Type" :> <<"application/json">>),
                data, params, Undefined)

\* a form-data FormData with one file part; getHeaders() derives the
\* content type from the boundary the object drew when it was created
FormData(boundary, filePath) ==
  [t |-> "formdata", boundary |-> boundary,
   parts |-> << [name |-> <<"file">>, stream |-> filePath] >>]
FormDataGetHeaders(formData) ==
  "content-type" :> (<<"multipart/form-data; boundary=">> \o formData.boundary)

uploadFile(this, filePath, boundary) ==
  LET formData == FormData(boundary, filePath) IN
  RequestConfig(this.baseUrl \o <<"/", "api/v1/upload">>, "POST",
                FormDataGetHeaders(formData) @@ AuthHeaders(this),
                formData, Undefined, Undefined)

getScanLogs(this, hash) ==
  FormPost(this, <<"/", "api/v1/scan_logs">>, << <<<<"hash">>, hash>> >>)

generateJsonReport(this, hash) ==
  FormPost(this, <<"/", "api/v1/report_json">>, << <<<<"hash">>, hash>> >>)

\* the listing sent as a form POST like the other methods
getRecentScans_post(this, page, pageSize) ==
  FormPost(this, <<"/", "api/v1/scans">>,
           << <<<<"page">>, <<ToString(page)>>>>,
              <<<<"page_size">>, <<ToString(pageSize)>>>> >>)

getRecentScans(this, page, pageSize) ==
  createRequestConfig(this, <<"/", "api/v1/scans">>, "GET", Undefined,
                      AuthHeaders(this),
                      [page |-> page, page_size |-> pageSize])

searchScanResult(this, query) ==
  FormPost(this, <<"/", "api/v1/search">>, << <<<<"query">>, query>> >>)

deleteScan(this, hash) ==
  FormPost(this, <<"/", "api/v1/delete_scan">>, << <<<<"hash">>, hash>> >>)

getScorecard(this, hash) ==
  FormPost(this, <<"/", "api/v1/scorecard">>, << <<<<"hash">>, hash>> >>)

generatePdfReport(this, hash) ==
  RequestConfig(this.baseUrl \o <<"/", "api/v1/download_pdf">>, "POST",
                FormHeaders(this) @@ ("Accept" :> <<"application/pdf">>),
                Str(URLSearchParamsToString(<< <<<<"hash">>, hash>> >>)),
                Undefined, Str(<<"arraybuffer">>))

viewSource(this, hash, file, type) ==
  FormPost(this, <<"/", "api/v1/view_source">>,
           << <<<<"hash">>, hash>>, <<<<"file">>, file>>, <<<<"type">>, type>> >>)

getScanTasks(this) ==
  RequestConfig(this.baseUrl \o <<"/", "api/v1/tasks">>, "POST",
                FormHeaders(this), Undefined, Undefined, Undefined)

compareApps(this, hash1, hash2) ==
  FormPost(this, <<"/", "api/v1/compare">>,
           << <<<<"hash1">>, hash1>>, <<<<"hash2">>, hash2>> >>)

suppressByRule(this, hash, type, rule) ==
  FormPost(this, <<"/", "api/v1/suppress_by_rule">>,
           << <<<<"hash">>, hash>>, <<<<"type">>, type>>, <<<<"rule">>, rule>> >>)

suppressByFiles(this, hash, type, rule) ==
  FormPost(this, <<"/", "api/v1/suppress_by_files">>,
           << <<<<"hash">>, hash>>, <<<<"type">>, type>>, <<<<"rule">>, rule>> >>)

listSuppressions(this, hash) ==
  FormPost(this, <<"/", "api/v1/list_suppressions">>, << <<<<"hash">>, hash>> >>)

deleteSuppression(this, hash, type, rule, kind) ==
  FormPost(this, <<"/", "api/v1/delete_suppression">>,
           << <<<<"hash">>, hash>>, <<<<"type">>, type>>, <<<<"rule">>, rule>>,
              <<<<"kind">>, kind>> >>)

(***************************************************************************)
(* axios: what `await axios(config)` hands back for an HTTP exchange       *)
(***************************************************************************)
\* UTF-8 bytes of the character runs that occur in the bodies sent to a
\* request whose response is read as raw bytes
Utf8Fragment(f) ==
  CASE f = "{" -> <<123>>
    [] f = "}" -> <<125>>
    [] f = "\"" -> <<34>>
    [] f = ":" -> <<58>>
    [] f = "error" -> <<101, 114, 114, 111, 114>>
    [] f = "boom" -> <<98, 111, 111, 109>>

RECURSIVE Utf8(_)
Utf8(s) == IF s = <<>> THEN <<>> ELSE Utf8Fragment(Head(s)) \o Utf8(Tail(s))

\* response.data of a body received from the wire: the raw bytes when the
\* request asked for an arraybuffer, else the parsed JSON when the text
\* parses and the text itself when it does not
AxiosData(config, body) ==
  IF config.responseType = Str(<<"arraybuffer">>)
  THEN Buf(IF body.t = "buffer" THEN body.bytes ELSE Utf8(body.s))
  ELSE LET Transformed(parsed) ==
             IF body.s # <<>> /\ ~parsed.threw THEN parsed.value ELSE Str(body.s)
       IN  Transformed(JSONparse(body.s))

AxiosResolved(data) == [ok |-> TRUE, data |-> data]
AxiosRejected(error) == [ok |-> FALSE, error |-> error]

\* an AxiosError; response is Undefined when no response was received
AxiosError(message, response) ==
  [isAxiosError |-> TRUE, name |-> "AxiosError", message |-> message,
   response |-> response]
\* new Error(message)
Error(message) ==
  [isAxiosError |-> FALSE, name |-> "Error", message |-> message,
   response |-> Undefined]

ApiErrorPrefix == <<"MobSF API Error: ">>

\* the catch block shared by sendRequest and generatePdfReport
\* the catch block wrapping whatever was thrown
CatchAxios_wrapsAll(error) ==
  LET errorData ==
        IF error.response # Undefined /\ Truthy(error.response.data)
        THEN JSONstringify(error.response.data).s
        ELSE error.message
  IN  Threw(Error(ApiErrorPrefix \o errorData))

CatchAxios(error) ==
  IF error.isAxiosError
  THEN LET errorData ==
             IF error.response # Undefined /\ Truthy(error.response.data)
             THEN JSONstringify(error.response.data).s
             ELSE error.message
       IN  Threw(Error(ApiErrorPrefix \o errorData))
  ELSE Threw(error)

\* MobSFClient.sendRequest, given how axios(config) settled
sendRequest(settled) ==
  IF settled.ok THEN Returned(settled.data) ELSE CatchAxios(settled.error)

\* the try/catch of MobSFClient.generatePdfReport: Buffer.from(response.data)
generatePdfReportSettled(settled) ==
  IF settled.ok THEN Returned(Buf(settled.data.bytes)) ELSE CatchAxios(settled.error)

(***************************************************************************)
(* Buffer.toString('base64')                                               *)
(***************************************************************************)
Base64Alphabet ==
  <<
     "A", "B", "C", "D", "E", "F", "G", "H", "I", "J", "K", "L", "M", "N", "O", "P",
     "Q", "R", "S", "T", "U", "V", "W", "X", "Y", "Z", "a", "b", "c", "d", "e", "f",
     "g", "h", "i", "j", "k", "l", "m", "n", "o", "p", "q", "r", "s", "t", "u", "v",
     "w", "x", "y", "z", "0", "1", "2", "3", "4", "5", "6", "7", "8", "9", "+", "/" >>

Base64Char(n) == Base64Alphabet[n + 1]

\* base64 that loses the low bits of the second byte of a two-byte tail
RECURSIVE Base64Encode_shortTail(_)
Base64Encode_shortTail(bytes) ==
  IF bytes = <<>> THEN <<>>
  ELSE IF Len(bytes) = 1
  THEN << Base64Char(bytes[1] \div 4), Base64Char((bytes[1] % 4) * 16), "=", "=" >>
  ELSE IF Len(bytes) = 2
  THEN << Base64Char(bytes[1] \div 4),
          Base64Char((bytes[1] % 4) * 16 + bytes[2] \div 16),
          Base64Char(0), "=" >>
  ELSE << Base64Char(bytes[1] \div 4),
          Base64Char((bytes[1] % 4) * 16 + bytes[2] \div 16),
          Base64Char((bytes[2] % 16) * 4 + bytes[3] \div 64),
          Base64Char(bytes[3] % 64) >>
       \o Base64Encode_shortTail(SubSeq(bytes, 4, Len(bytes)))

RECURSIVE Base64Encode(_)
Base64Encode(bytes) ==
  IF bytes = <<>> THEN <<>>
  ELSE IF Len(bytes) = 1
  THEN << Base64Char(bytes[1] \div 4), Base64Char((bytes[1] % 4) * 16), "=", "=" >>
  ELSE IF Len(bytes) = 2
  THEN << Base64Char(bytes[1] \div 4),
          Base64Char((bytes[1] % 4) * 16 + bytes[2] \div 16),
          Base64Char((bytes[2] % 16) * 4), "=" >>
  ELSE << Base64Char(bytes[1] \div 4),
          Base64Char((bytes[1] % 4) * 16 + bytes[2] \div 16),
          Base64Char((bytes[2] % 16) * 4 + bytes[3] \div 64),
          Base64Char(bytes[3] % 64) >>
       \o Base64Encode(SubSeq(bytes, 4, Len(bytes)))

(***************************************************************************)
(* Tool handlers: the callback each tool passes to .then(), and the        *)
(* .catch(error => reject(error)) that follows it                          *)
(***************************************************************************)
TextItem(text) == [type |-> "text", text |-> text]
Envelope(item) == [content |-> <<item>>]
Resolved(value) == [state |-> "resolved", value |-> value]
Rejected(error) == [state |-> "rejected", error |-> error]

\* text: JSON.stringify(result, null, 2)
StringifyResult(result) == Resolved(Envelope(TextItem(JSONstringify(result))))
\* text: typeof result === 'string' ? result : JSON.stringify(result, null, 2)
StringOrStringifyResult(result) ==
  Resolved(Envelope(TextItem(IF IsString(result) THEN result
                             ELSE JSONstringify(result))))
\* text: result
RawResult(result) == Resolved(Envelope(TextItem(result)))

\* let data = typeof result === 'string' ? JSON.parse(result) : result
ParseIfString(result) ==
  IF IsString(result) THEN JSONparse(result.s) ELSE Returned(result)

\* the section tool logging an exception of the callback instead of
\* rejecting
getJsonReportSection_swallows(section, result) ==
  LET Section(sectionData) ==
        IF sectionData.threw THEN [state |-> "pending"]
        ELSE IF ~Truthy(sectionData.value)
        THEN Resolved(Envelope(TextItem(
               Str(<<"Section '">> \o section \o <<"' not found in report.">>))))
        ELSE Resolved(Envelope(TextItem(JSONstringify(sectionData.value))))
      Then(data) ==
        IF data.threw THEN [state |-> "pending"]
        ELSE Section(GetProp(data.value, section))
  IN  Then(ParseIfString(result))

getJsonReportSection(section, result) ==
  LET Section(sectionData) ==
        IF sectionData.threw THEN Rejected(sectionData.error)
        ELSE IF ~Truthy(sectionData.value)
        THEN Resolved(Envelope(TextItem(
               Str(<<"Section '">> \o section \o <<"' not found in report.">>))))
        ELSE Resolved(Envelope(TextItem(JSONstringify(sectionData.value))))
      Then(data) ==
        IF data.threw THEN Rejected(data.error)
        ELSE Section(GetProp(data.value, section))
  IN  Then(ParseIfString(result))

\* getJsonReportSections listing the keys in reverse order
getJsonReportSections_reversed(result) ==
  LET Keys(sections) ==
        IF sections.threw THEN Rejected(sections.error)
        ELSE Resolved(Envelope(TextItem(JSONstringify(
               Arr([i \in 1..Len(sections.value) |->
                      Str(sections.value[Len(sections.value) + 1 - i])])))))
      Then(data) ==
        IF data.threw THEN Rejected(data.error)
        ELSE Keys(ObjectKeys(data.value))
  IN  Then(ParseIfString(result))

getJsonReportSections(result) ==
  LET Keys(sections) ==
        IF sections.threw THEN Rejected(sections.error)
        ELSE Resolved(Envelope(TextItem(JSONstringify(
               Arr([i \in 1..Len(sections.value) |-> Str(sections.value[i])])))))
      Then(data) ==
        IF data.threw THEN Rejected(data.error)
        ELSE Keys(ObjectKeys(data.value))
  IN  Then(ParseIfString(result))

\* the section shortcut answering like the generic section tool
getJsonSection_notFound(section, result) ==
  LET Section(sectionData) ==
        IF sectionData.threw THEN Rejected(sectionData.error)
        ELSE IF ~Truthy(sectionData.value)
        THEN Resolved(Envelope(TextItem(
               Str(<<"Section '">> \o section \o <<"' not found in report.">>))))
        ELSE Resolved(Envelope(TextItem(JSONstringify(sectionData.value))))
      Then(data) ==
        IF data.threw THEN Rejected(data.error)
        ELSE Section(GetProp(data.value, section))
  IN  Then(ParseIfString(result))

\* the section shortcut answering with the whole report
getJsonSection_wholeReport(section, result) ==
  LET Then(data) ==
        IF data.threw THEN Rejected(data.error)
        ELSE Resolved(Envelope(TextItem(JSONstringify(data.value))))
  IN  Then(ParseIfString(result))

\* the handler registered by jsonSections.forEach for one section
getJsonSection(section, result) ==
  LET Section(sectionData) ==
        IF sectionData.threw THEN Rejected(sectionData.error)
        ELSE Resolved(Envelope(TextItem(JSONstringify(sectionData.value))))
      Then(data) ==
        IF data.threw THEN Rejected(data.error)
        ELSE Section(GetProp(data.value, section))
  IN  Then(ParseIfString(result))

\* listAllHashes reading the field md5 instead of MD5
listAllHashes_lowercase(result) ==
  LET Map(list) ==
        IF list.t # "array" THEN Rejected(TypeError)
        ELSE IF \E i \in 1..Len(list.items) :
                  GetProp(list.items[i], <<"md5">>).threw
        THEN Rejected(TypeError)
        ELSE Resolved(Envelope(TextItem(JSONstringify(
               Arr([i \in 1..Len(list.items) |->
                      GetProp(list.items[i], <<"md5">>).value])))))
      Content(content) ==
        IF content.threw THEN Rejected(content.error)
        ELSE Map(IF Truthy(content.value) THEN content.value ELSE Arr(<<>>))
      Then(data) ==
        IF data.threw THEN Rejected(data.error)
        ELSE Content(GetProp(data.value, <<"content">>))
  IN  Then(ParseIfString(result))

\* listAllHashes leaving out the items that have no MD5
listAllHashes_dropsMissing(result) ==
  LET Map(list) ==
        IF list.t # "array" THEN Rejected(TypeError)
        ELSE IF \E i \in 1..Len(list.items) :
                  GetProp(list.items[i], <<"MD5">>).threw
        THEN Rejected(TypeError)
        ELSE Resolved(Envelope(TextItem(JSONstringify(
               Arr(SelectSeq([i \in 1..Len(list.items) |->
                                GetProp(list.items[i], <<"MD5">>).value],
                             LAMBDA md5 : md5 # Undefined))))))
      Content(content) ==
        IF content.threw THEN Rejected(content.error)
        ELSE Map(IF Truthy(content.value) THEN content.value ELSE Arr(<<>>))
      Then(data) ==
        IF data.threw THEN Rejected(data.error)
        ELSE Content(GetProp(data.value, <<"content">>))
  IN  Then(ParseIfString(result))

listAllHashes(result) ==
  LET Map(list) ==
        IF list.t # "array" THEN Rejected(TypeError)
        ELSE IF \E i \in 1..Len(list.items) :
                  GetProp(list.items[i], <<"MD5">>).threw
        THEN Rejected(TypeError)
        ELSE Resolved(Envelope(TextItem(JSONstringify(
               Arr([i \in 1..Len(list.items) |->
                      GetProp(list.items[i], <<"MD5">>).value])))))
      Content(content) ==
        IF content.threw THEN Rejected(content.error)
        ELSE Map(IF Truthy(content.value) THEN content.value ELSE Arr(<<>>))
      Then(data) ==
        IF data.threw THEN Rejected(data.error)
        ELSE Content(GetProp(data.value, <<"content">>))
  IN  Then(ParseIfString(result))

generatePdfReportTool(hash, buffer) ==
  Resolved(Envelope(
    [type |-> "resource",
     resource |-> [uri |-> <<"mobsf_report_">> \o hash \o <<".pdf">>,
                   blob |-> Base64Encode(buffer.bytes),
                   mimeType |-> <<"application/pdf">>]]))

(***************************************************************************)
(* The tools, in the order the module registers them                       *)
(***************************************************************************)
BaseTools ==
  << <<"uploadFile">>, <<"getScanLogs">>, <<"getJsonReport">>,
     <<"getJsonReportSection">>, <<"getJsonReportSections">>,
     <<"getRecentScans">>, <<"searchScanResult">>, <<"deleteScan">>,
     <<"getScorecard">>, <<"generatePdfReport">>, <<"viewSource">>,
     <<"getScanTasks">>, <<"compareApps">>, <<"suppressByRule">>,
     <<"suppressByFiles">>, <<"listSuppressions">>, <<"deleteSuppression">>,
     <<"listAllHashes">> >>

jsonSections ==
  << <<"version">>, <<"title">>, <<"file_name">>, <<"app_name">>,
     <<"app_type">>, <<"size">>, <<"md5">>, <<"sha1">>, <<"sha256">>,
     <<"package_name">>, <<"main_activity">>, <<"exported_activities">>,
     <<"browsable_activities">>, <<"activities">>, <<"receivers">>,
     <<"providers">>, <<"services">>, <<"libraries">>, <<"target_sdk">>,
     <<"max_sdk">>, <<"min_sdk">>, <<"version_name">>, <<"version_code">>,
     <<"permissions">>, <<"malware_permissions">>,
     <<"certificate_analysis">>, <<"manifest_analysis">>,
     <<"network_security">>, <<"binary_analysis">>, <<"file_analysis">>,
     <<"android_api">>, <<"code_analysis">>, <<"niap_analysis">>,
     <<"permission_mapping">>, <<"urls">>, <<"domains">>, <<"emails">>,
     <<"strings">>, <<"firebase_urls">>, <<"exported_count">>, <<"apkid">>,
     <<"behaviour">>, <<"trackers">>, <<"playstore_details">>,
     <<"secrets">>, <<"logs">>, <<"sbom">>, <<"average_cvss">>,
     <<"appsec">>, <<"virus_total">>, <<"base_url">>, <<"dwd_dir">>,
     <<"host_os">> >>

\* a registered tool: its name and, for a section shortcut, the section the
\* handler closed over (<<>> for the tools registered one by one)
Tool(name, section) == [name |-> name, section |-> section]
\* every shortcut registered under the bare prefix
SectionTool_prefixOnly(section) == Tool(<<"getJsonSection_">>, section)
SectionTool(section) == Tool(<<"getJsonSection_">> \o section, section)

\* the server.tool() calls of the module in program order
Registrations ==
  [i \in 1..Len(BaseTools) |-> Tool(BaseTools[i], <<>>)]
  \o [i \in 1..Len(jsonSections) |-> SectionTool(jsonSections[i])]

(***************************************************************************)
(* Inputs: the environment, the tool arguments and the backend's answers   *)
(***************************************************************************)
\* number of tool calls that can be awaiting delivery at the same time
MaxInFlight == 1
Slots == 1..MaxInFlight

\* process.env.MOBSF_URL and process.env.MOBSF_API_KEY: unset or a string
UrlValues ==
  { Undefined, Str(<<>>), Str(<<"http://mobsf:8000">>),
    Str(<<"http://mobsf:8000", "/">>) }
KeyValues == { Undefined, Str(<<>>), Str(<<"key1">>) }

Hashes == { <<"h1">>, <<"h2">> }
OneHash == { <<"h1">> }
FilePaths == { <<"app.apk">> }
\* the arguments of uploadFile calls: a path, a number, nothing
UploadFileArguments ==
  { << << <<"file">>, file >> >> :
       file \in { Str(f) : f \in FilePaths } \cup { Num(1) } } \cup { <<>> }
\* the boundary a FormData object draws at random
Boundaries == { <<"--b1">>, <<"--b2">> }
\* section names asked of the generic section tool
SectionNames ==
  { <<"size">>, <<"exported_count">>, <<"average_cvss">>, <<"title">>,
    <<"virus_total">>, <<"nope">>, <<"constructor">> }
\* the section shortcuts that get called
CalledSections == { <<"size">>, <<"exported_count">>, <<"host_os">> }
Pages == { 1 }
PageSizes == { 10 }
\* the arguments of getRecentScans calls: both numbers, the page as a
\* string, the page size missing
RecentScansArguments ==
  { << << <<"page">>, page >>, << <<"pageSize">>, Num(pageSize) >> >> :
       page \in { Num(n) : n \in Pages } \cup { Str(<<"1">>) },
       pageSize \in PageSizes }
  \cup { << << <<"page">>, Num(page) >> >> : page \in Pages }

ReportA ==
  Obj(<< << <<"size">>, Str(<<"1MB">>) >>,
         << <<"exported_count">>, Num(0) >>,
         << <<"title">>, Str(<<>>) >>,
         << <<"average_cvss">>, Null >>,
         << <<"virus_total">>, Bool(FALSE) >>,
         << <<"permissions">>, Arr(<< Str(<<"INTERNET">>) >>) >> >>)
ReportC ==
  Obj(<< << <<"size">>, Str(<<"3MB">>) >>, << <<"exported_count">>, Num(0) >> >>)
\* {"size":"2MB","1":true}
ReportBWire ==
  << "{", "\"", "size", "\"", ":", "\"", "2MB", "\"", ",",
     "\"", "1", "\"", ":", "true", "}" >>

\* bodies of a 2xx answer to /api/v1/report_json, as sent on the wire: three
\* reports, a report encoded twice, null, and a text that is not JSON
ReportBodies ==
  { Str(Serialize(ReportA, 0)), Str(ReportBWire), Str(<<"{", "}">>),
    Str(Serialize(Str(Serialize(ReportC, 0)), 0)),
    Str(<<"null">>), Str(<<"<html>">>) }

ScanItem(md5) == Obj(<< << <<"MD5">>, Str(md5) >>, << <<"APP_NAME">>, Str(<<"x">>) >> >>)
ScansPage(content) ==
  Obj(<< << <<"content">>, content >>, << <<"count">>, Num(2) >> >>)
\* bodies of a 2xx answer to /api/v1/scans
ScanBodies ==
  { Str(Serialize(ScansPage(Arr(<< ScanItem(<<"a">>), ScanItem(<<"b">>) >>)), 0)),
    Str(Serialize(ScansPage(Arr(<< ScanItem(<<"b">>), ScanItem(<<"a">>),
                                   ScanItem(<<"b">>) >>)), 0)),
    Str(Serialize(ScansPage(Arr(<< ScanItem(<<"a">>),
              Obj(<< << <<"APP_NAME">>, Str(<<"y">>) >> >>) >>)), 0)),
    Str(Serialize(ScansPage(Arr(<<>>)), 0)),
    Str(Serialize(Obj(<< << <<"count">>, Num(0) >> >>), 0)),
    Str(Serialize(Str(Serialize(ScansPage(Arr(<< ScanItem(<<"a">>) >>)), 0)), 0)),
    Str(Serialize(ScansPage(Num(5)), 0)),
    Str(Serialize(ScansPage(Arr(<< Null >>)), 0)) }

\* bodies of a 2xx answer of the other endpoints: a JSON document, a text
PlainBodies ==
  { Str(<< "{", "\"", "ok", "\"", ":", "true", "}" >>), Str(<<"plain text">>) }

\* longest PDF the backend sends; a PDF of n bytes is m, 2m, ..., nm
\* (modulo 256) for a multiplier m
MaxPdfLen == 3
PdfMultipliers == { 0, 201 }
PdfBodies ==
  { Buf([k \in 1..n |-> (k * m) % 256]) : n \in 0..MaxPdfLen, m \in PdfMultipliers }

\* bodies of a failed (status 500) answer: {"error":"boom"} and no body
ErrorBoomWire == << "{", "\"", "error", "\"", ":", "\"", "boom", "\"", "}" >>
ErrorBodies == { Str(ErrorBoomWire), Str(<<>>) }
FailureStatus == 500

\* an HTTP exchange as the backend and the network decide it
HttpResponse(status, body) == [kind |-> "response", status |-> status, body |-> body]
NoResponse(message) == [kind |-> "noResponse", message |-> message]
Thrown(error) == [kind |-> "thrown", error |-> error]

\* how `await axios(config)` settles for an exchange
axios(config, exchange) ==
  CASE exchange.kind = "response" ->
         IF exchange.status \in 200..299
         THEN AxiosResolved(AxiosData(config, exchange.body))
         ELSE AxiosRejected(AxiosError(
                <<"Request failed with status code ", ToString(exchange.status)>>,
                [status |-> exchange.status,
                 data |-> AxiosData(config, exchange.body)]))
    [] exchange.kind = "noResponse" ->
         AxiosRejected(AxiosError(exchange.message, Undefined))
    [] exchange.kind = "thrown" -> AxiosRejected(exchange.error)

(***************************************************************************)
(* State                                                                   *)
(***************************************************************************)
VARIABLES
  env,          \* process.env: [MOBSF_URL, MOBSF_API_KEY]
  pc,           \* position of the module's top-level code
  exitCode,     \* status passed to process.exit, -1 while running
  mobsfClient,  \* the client, Undefined until createMobSFClient ran
  registered,   \* tools registered with the server, in order
  calls,        \* per slot: idle, a pending call, a settled call, or a
                \* call the server refused
  requests      \* per slot: HTTP requests issued for the call in the slot

vars == << env, pc, exitCode, mobsfClient, registered, calls, requests >>

Idle == [state |-> "idle"]

Init ==
  /\ env \in [MOBSF_URL : UrlValues, MOBSF_API_KEY : KeyValues]
  /\ pc = "checkUrl"
  /\ exitCode = -1
  /\ mobsfClient = Undefined
  /\ registered = <<>>
  /\ calls = [i \in Slots |-> Idle]
  /\ requests = [i \in Slots |-> 0]

(***************************************************************************)
(* Bootstrap                                                               *)
(***************************************************************************)
\* process.exit(code)
Exit(code) == pc' = "exited" /\ exitCode' = code

\* if (!baseUrl) { console.error(...); process.exit(1); }
CheckUrl ==
  /\ pc = "checkUrl"
  /\ IF ~Truthy(env.MOBSF_URL) THEN Exit(1)
     ELSE pc' = "checkKey" /\ UNCHANGED exitCode
  /\ UNCHANGED << env, mobsfClient, registered, calls, requests >>

\* the key check testing for an unset variable only
CheckKey_unsetOnly ==
  /\ pc = "checkKey"
  /\ IF env.MOBSF_API_KEY = Undefined THEN Exit(1)
     ELSE pc' = "createClient" /\ UNCHANGED exitCode
  /\ UNCHANGED << env, mobsfClient, registered, calls, requests >>

\* if (!apiKey) { console.error(...); process.exit(1); }
CheckKey ==
  /\ pc = "checkKey"
  /\ IF ~Truthy(env.MOBSF_API_KEY) THEN Exit(1)
     ELSE pc' = "createClient" /\ UNCHANGED exitCode
  /\ UNCHANGED << env, mobsfClient, registered, calls, requests >>

\* const mobsfClient = createMobSFClient(baseUrl, apiKey)
CreateClient ==
  /\ pc = "createClient"
  /\ mobsfClient' = createMobSFClient(env.MOBSF_URL.s, env.MOBSF_API_KEY.s)
  /\ pc' = "register"
  /\ UNCHANGED << env, exitCode, registered, calls, requests >>

\* the next server.tool(...) call of the module
RegisterTool ==
  /\ pc = "register"
  /\ Len(registered) < Len(Registrations)
  /\ registered' = Append(registered, Registrations[Len(registered) + 1])
  /\ UNCHANGED << env, pc, exitCode, mobsfClient, calls, requests >>

\* main(): await server.connect(transport) succeeds
\* the transport connected while tools are still to be registered
Main_early ==
  /\ pc = "register"
  /\ pc' = "serving"
  /\ UNCHANGED << env, exitCode, mobsfClient, registered, calls, requests >>

Main ==
  /\ pc = "register"
  /\ Len(registered) = Len(Registrations)
  /\ pc' = "serving"
  /\ UNCHANGED << env, exitCode, mobsfClient, registered, calls, requests >>

\* main().catch(error => { console.error(...); process.exit(1); })
MainFails ==
  /\ pc = "register"
  /\ Len(registered) = Len(Registrations)
  /\ Exit(1)
  /\ UNCHANGED << env, mobsfClient, registered, calls, requests >>

(***************************************************************************)
(* Tool calls: the server runs the handler of a registered tool, which     *)
(* calls one client method, which issues one request                       *)
(***************************************************************************)
IsRegistered(name) == \E k \in 1..Len(registered) : registered[k].name = name
RegisteredTool(name) ==
  registered[CHOOSE k \in 1..Len(registered) : registered[k].name = name]

\* a handler started only when no other call is waiting for the backend
Invoke_serial(i, name, args, config) ==
  /\ pc = "serving"
  /\ calls[i].state = "idle"
  /\ \A j \in DOMAIN calls : calls[j].state # "pending"
  /\ IsRegistered(name)
  /\ calls' = [calls EXCEPT ![i] =
       [state |-> "pending", tool |-> RegisteredTool(name), args |-> args,
        config |-> config]]
  /\ requests' = [requests EXCEPT ![i] = requests[i] + 1]
  /\ UNCHANGED << env, pc, exitCode, mobsfClient, registered >>

Invoke(i, name, args, config) ==
  /\ pc = "serving"
  /\ calls[i].state = "idle"
  /\ IsRegistered(name)
  /\ calls' = [calls EXCEPT ![i] =
       [state |-> "pending", tool |-> RegisteredTool(name), args |-> args,
        config |-> config]]
  /\ requests' = [requests EXCEPT ![i] = requests[i] + 1]
  /\ UNCHANGED << env, pc, exitCode, mobsfClient, registered >>

(***************************************************************************)
(* The server's handler of a tools/call request parses the arguments with  *)
(* the schema the tool was registered with, and calls the tool's handler   *)
(* with the parsed arguments only when they pass                           *)
(***************************************************************************)
\* the parameter schema given to server.tool() for the tool
inputSchema(name) ==
  CASE name = <<"uploadFile">> -> [file |-> "string"]
    [] name \in { <<"getRecentScans">>, <<"listAllHashes">> } ->
         [page |-> "number", pageSize |-> "number"]
    [] name = <<"getJsonReportSection">> ->
         [hash |-> "string", section |-> "string"]
    [] name = <<"searchScanResult">> -> [query |-> "string"]
    [] name = <<"viewSource">> ->
         [hash |-> "string", file |-> "string", type |-> "string"]
    [] name = <<"getScanTasks">> -> <<>>
    [] name = <<"compareApps">> -> [hash1 |-> "string", hash2 |-> "string"]
    [] name \in { <<"suppressByRule">>, <<"suppressByFiles">> } ->
         [hash |-> "string", type |-> "string", rule |-> "string"]
    [] name = <<"deleteSuppression">> ->
         [hash |-> "string", type |-> "string", rule |-> "string",
          kind |-> "string"]
    [] OTHER -> [hash |-> "string"]

\* z.string() and z.number() applied to one value
ZodAccepts(type, v) == v.t = type

\* the schema with every parameter declared optional
SchemaAccepts_optional(schema, arguments) ==
  \A p \in DOMAIN schema :
    HasOwn(arguments, <<p>>) => ZodAccepts(schema[p], OwnValue(arguments, <<p>>))

\* z.object(schema) accepts the arguments: every declared parameter is there
\* and has the declared type; other keys are ignored
SchemaAccepts(schema, arguments) ==
  \A p \in DOMAIN schema :
    /\ HasOwn(arguments, <<p>>)
    /\ ZodAccepts(schema[p], OwnValue(arguments, <<p>>))

\* the error the server answers a refused call with
InvalidParams(name) ==
  [isAxiosError |-> FALSE, name |-> "McpError",
   message |-> <<"Invalid arguments for tool ">> \o name,
   response |-> Undefined]

\* one parameter as the handler destructures it from the arguments
Argument(arguments, p) ==
  LET Value(v) == CASE v.t = "string" -> v.s
                    [] v.t = "number" -> v.n
                    [] OTHER -> v
  IN  IF HasOwn(arguments, p) THEN Value(OwnValue(arguments, p)) ELSE Undefined

CallTool(i, name, arguments, config) ==
  IF SchemaAccepts(inputSchema(name), arguments)
  THEN Invoke(i, name, arguments, config)
  ELSE /\ pc = "serving"
       /\ calls[i].state = "idle"
       /\ IsRegistered(name)
       /\ calls' = [calls EXCEPT ![i] =
            [state |-> "rejected", tool |-> RegisteredTool(name),
             args |-> arguments, error |-> InvalidParams(name)]]
       /\ UNCHANGED << env, pc, exitCode, mobsfClient, registered, requests >>

tool_uploadFile(i) ==
  \E arguments \in UploadFileArguments, boundary \in Boundaries :
    CallTool(i, <<"uploadFile">>, arguments,
             uploadFile(mobsfClient, Argument(arguments, <<"file">>), boundary))

tool_getScanLogs(i) ==
  \E hash \in OneHash :
    Invoke(i, <<"getScanLogs">>, [hash |-> hash], getScanLogs(mobsfClient, hash))

tool_getJsonReport(i) ==
  \E hash \in Hashes :
    Invoke(i, <<"getJsonReport">>, [hash |-> hash],
           generateJsonReport(mobsfClient, hash))

tool_getJsonReportSection(i) ==
  \E hash \in OneHash, section \in SectionNames :
    Invoke(i, <<"getJsonReportSection">>, [hash |-> hash, section |-> section],
           generateJsonReport(mobsfClient, hash))

tool_getJsonReportSections(i) ==
  \E hash \in OneHash :
    Invoke(i, <<"getJsonReportSections">>, [hash |-> hash],
           generateJsonReport(mobsfClient, hash))

tool_getRecentScans(i) ==
  \E arguments \in RecentScansArguments :
    CallTool(i, <<"getRecentScans">>, arguments,
             getRecentScans(mobsfClient, Argument(arguments, <<"page">>),
                            Argument(arguments, <<"pageSize">>)))

tool_searchScanResult(i) ==
  \E query \in { <<"com.app">> } :
    Invoke(i, <<"searchScanResult">>, [query |-> query],
           searchScanResult(mobsfClient, query))

tool_deleteScan(i) ==
  \E hash \in OneHash :
    Invoke(i, <<"deleteScan">>, [hash |-> hash], deleteScan(mobsfClient, hash))

\* the scorecard tool wired to the scan logs method
tool_getScorecard_logs(i) ==
  \E hash \in OneHash :
    Invoke(i, <<"getScorecard">>, [hash |-> hash], getScanLogs(mobsfClient, hash))

tool_getScorecard(i) ==
  \E hash \in OneHash :
    Invoke(i, <<"getScorecard">>, [hash |-> hash], getScorecard(mobsfClient, hash))

tool_generatePdfReport(i) ==
  \E hash \in Hashes :
    Invoke(i, <<"generatePdfReport">>, [hash |-> hash],
           generatePdfReport(mobsfClient, hash))

tool_viewSource(i) ==
  \E hash \in OneHash, file \in { <<"src", "/", "Main.java">> }, type \in { <<"apk">> } :
    Invoke(i, <<"viewSource">>, [hash |-> hash, file |-> file, type |-> type],
           viewSource(mobsfClient, hash, file, type))

tool_getScanTasks(i) ==
  Invoke(i, <<"getScanTasks">>, <<>>, getScanTasks(mobsfClient))

tool_compareApps(i) ==
  \E hash1 \in OneHash, hash2 \in { <<"h2">> } :
    Invoke(i, <<"compareApps">>, [hash1 |-> hash1, hash2 |-> hash2],
           compareApps(mobsfClient, hash1, hash2))

tool_suppressByRule(i) ==
  \E hash \in OneHash, type \in { <<"code">> }, rule \in { <<"rule1">> } :
    Invoke(i, <<"suppressByRule">>, [hash |-> hash, type |-> type, rule |-> rule],
           suppressByRule(mobsfClient, hash, type, rule))

tool_suppressByFiles(i) ==
  \E hash \in OneHash, type \in { <<"code">> }, rule \in { <<"rule1">> } :
    Invoke(i, <<"suppressByFiles">>, [hash |-> hash, type |-> type, rule |-> rule],
           suppressByFiles(mobsfClient, hash, type, rule))

tool_listSuppressions(i) ==
  \E hash \in OneHash :
    Invoke(i, <<"listSuppressions">>, [hash |-> hash],
           listSuppressions(mobsfClient, hash))

tool_deleteSuppression(i) ==
  \E hash \in OneHash, type \in { <<"manifest">> }, rule \in { <<"rule1">> },
     kind \in { <<"rule">> } :
    Invoke(i, <<"deleteSuppression">>,
           [hash |-> hash, type |-> type, rule |-> rule, kind |-> kind],
           deleteSuppression(mobsfClient, hash, type, rule, kind))

tool_listAllHashes(i) ==
  \E page \in Pages, pageSize \in PageSizes :
    Invoke(i, <<"listAllHashes">>, [page |-> page, pageSize |-> pageSize],
           getRecentScans(mobsfClient, page, pageSize))

tool_getJsonSection(i) ==
  \E section \in CalledSections, hash \in OneHash :
    Invoke(i, <<"getJsonSection_">> \o section, [hash |-> hash],
           generateJsonReport(mobsfClient, hash))

(***************************************************************************)
(* Settling a call: the client method's promise settles, then the          *)
(* handler's .then() callback or its .catch() runs                         *)
(***************************************************************************)
IsTool(call, name) == call.tool.name = <<name>>
IsSectionTool(call) == call.tool.section # <<>>

\* the promise the client method returns, given how axios settled
ClientMethodSettled(call, settled) ==
  IF IsTool(call, "generatePdfReport") THEN generatePdfReportSettled(settled)
  ELSE sendRequest(settled)

\* the callbacks reading the section and the hash from what the call in the
\* first slot was given, as if they were kept in one shared variable
HandlerThen_sharedArguments(call, result) ==
  LET Shape(from) ==
        CASE IsSectionTool(call) -> getJsonSection(from.tool.section, result)
          [] IsTool(call, "getJsonReportSection") ->
               getJsonReportSection(from.args.section, result)
          [] IsTool(call, "getJsonReportSections") -> getJsonReportSections(result)
          [] IsTool(call, "listAllHashes") -> listAllHashes(result)
          [] IsTool(call, "generatePdfReport") ->
               generatePdfReportTool(from.args.hash, result)
          [] call.tool.name \in { <<"getScanTasks">>, <<"compareApps">> } ->
               RawResult(result)
          [] call.tool.name \in { <<"viewSource">>, <<"suppressByRule">>,
                                  <<"suppressByFiles">>, <<"listSuppressions">>,
                                  <<"deleteSuppression">> } ->
               StringOrStringifyResult(result)
          [] OTHER -> StringifyResult(result)
  IN  Shape(IF /\ calls[1].state \in {"pending", "settled"}
               /\ IsSectionTool(calls[1]) = IsSectionTool(call)
               /\ IsSectionTool(call) \/ calls[1].tool.name = call.tool.name
            THEN calls[1] ELSE call)

\* the .then() callback of the call's handler, applied to the result
HandlerThen(call, result) ==
  CASE IsSectionTool(call) -> getJsonSection(call.tool.section, result)
    [] IsTool(call, "getJsonReportSection") ->
         getJsonReportSection(call.args.section, result)
    [] IsTool(call, "getJsonReportSections") -> getJsonReportSections(result)
    [] IsTool(call, "listAllHashes") -> listAllHashes(result)
    [] IsTool(call, "generatePdfReport") ->
         generatePdfReportTool(call.args.hash, result)
    [] call.tool.name \in { <<"getScanTasks">>, <<"compareApps">> } ->
         RawResult(result)
    [] call.tool.name \in { <<"viewSource">>, <<"suppressByRule">>,
                            <<"suppressByFiles">>, <<"listSuppressions">>,
                            <<"deleteSuppression">> } ->
         StringOrStringifyResult(result)
    [] OTHER -> StringifyResult(result)

\* the handler's promise: .then(callback).catch(error => reject(error))
HandlerOutcome(call, exchange) ==
  LET Chain(r) == IF r.threw THEN Rejected(r.error) ELSE HandlerThen(call, r.value)
  IN  Chain(ClientMethodSettled(call, axios(call.config, exchange)))

\* the bodies the backend answers the call's endpoint with
SuccessBodies(call) ==
  CASE IsTool(call, "generatePdfReport") -> PdfBodies
    [] IsTool(call, "listAllHashes") -> ScanBodies
    [] IsSectionTool(call)
       \/ call.tool.name \in { <<"getJsonReport">>, <<"getJsonReportSection">>,
                               <<"getJsonReportSections">> } -> ReportBodies
    [] OTHER -> PlainBodies

Settle(i, exchange) ==
  /\ pc = "serving"
  /\ calls[i].state = "pending"
  /\ calls' = [calls EXCEPT ![i] =
       [state |-> "settled", tool |-> calls[i].tool, args |-> calls[i].args,
        config |-> calls[i].config, exchange |-> exchange,
        outcome |-> HandlerOutcome(calls[i], exchange)]]
  /\ UNCHANGED << env, pc, exitCode, mobsfClient, registered, requests >>

\* the backend answers with a 2xx status
BackendAnswers(i) ==
  /\ calls[i].state = "pending"
  /\ \E body \in SuccessBodies(calls[i]) : Settle(i, HttpResponse(200, body))

\* an error status ending the process
BackendFails_exits(i) ==
  /\ pc = "serving"
  /\ calls[i].state = "pending"
  /\ Exit(1)
  /\ UNCHANGED << env, mobsfClient, registered, calls, requests >>

\* the backend answers with an error status
BackendFails(i) ==
  /\ calls[i].state = "pending"
  /\ \E body \in ErrorBodies : Settle(i, HttpResponse(FailureStatus, body))

\* no response arrives: connection refused, reset, timed out
ConnectionRefused == NoResponse(<<"connect ECONNREFUSED">>)
\* the request sent once more when no response arrives
ConnectionFails_retries(i) ==
  /\ pc = "serving"
  /\ calls[i].state = "pending"
  /\ requests[i] < 2
  /\ requests' = [requests EXCEPT ![i] = requests[i] + 1]
  /\ UNCHANGED << env, pc, exitCode, mobsfClient, registered, calls >>
ConnectionFails(i) == Settle(i, ConnectionRefused)

\* something that is not an AxiosError is thrown while the request is made
InvalidUrl ==
  Thrown([isAxiosError |-> FALSE, name |-> "TypeError",
          message |-> <<"Invalid URL">>, response |-> Undefined])
\* the client rebuilt from the environment when the request throws
RequestThrows_rebuildsClient(i) ==
  /\ pc = "serving"
  /\ calls[i].state = "pending"
  /\ calls' = [calls EXCEPT ![i] =
       [state |-> "settled", tool |-> calls[i].tool, args |-> calls[i].args,
        config |-> calls[i].config, exchange |-> InvalidUrl,
        outcome |-> HandlerOutcome(calls[i], InvalidUrl)]]
  /\ mobsfClient' = [baseUrl |-> env.MOBSF_URL.s, apiKey |-> env.MOBSF_API_KEY.s]
  /\ UNCHANGED << env, pc, exitCode, registered, requests >>
RequestThrows(i) == Settle(i, InvalidUrl)

\* the server writes the result or the error of a settled call to the
\* transport; the slot is free again
Deliver(i) ==
  /\ pc = "serving"
  /\ calls[i].state \in {"settled", "rejected"}
  /\ calls' = [calls EXCEPT ![i] = Idle]
  /\ requests' = [requests EXCEPT ![i] = 0]
  /\ UNCHANGED << env, pc, exitCode, mobsfClient, registered >>

Next ==
  \/ CheckUrl
  \/ CheckKey
  \/ CreateClient
  \/ RegisterTool
  \/ Main
  \/ MainFails
  \/ \E i \in Slots : tool_uploadFile(i)
  \/ \E i \in Slots : tool_getScanLogs(i)
  \/ \E i \in Slots : tool_getJsonReport(i)
  \/ \E i \in Slots : tool_getJsonReportSection(i)
  \/ \E i \in Slots : tool_getJsonReportSections(i)
  \/ \E i \in Slots : tool_getRecentScans(i)
  \/ \E i \in Slots : tool_searchScanResult(i)
  \/ \E i \in Slots : tool_deleteScan(i)
  \/ \E i \in Slots : tool_getScorecard(i)
  \/ \E i \in Slots : tool_generatePdfReport(i)
  \/ \E i \in Slots : tool_viewSource(i)
  \/ \E i \in Slots : tool_getScanTasks(i)
  \/ \E i \in Slots : tool_compareApps(i)
  \/ \E i \in Slots : tool_suppressByRule(i)
  \/ \E i \in Slots : tool_suppressByFiles(i)
  \/ \E i \in Slots : tool_listSuppressions(i)
  \/ \E i \in Slots : tool_deleteSuppression(i)
  \/ \E i \in Slots : tool_listAllHashes(i)
  \/ \E i \in Slots : tool_getJsonSection(i)
  \/ \E i \in Slots : BackendAnswers(i)
  \/ \E i \in Slots : BackendFails(i)
  \/ \E i \in Slots : ConnectionFails(i)
  \/ \E i \in Slots : RequestThrows(i)
  \/ \E i \in Slots : Deliver(i)

Spec == Init /\ [][Next]_vars

(***************************************************************************)
(* Vocabulary of the properties                                            *)
(***************************************************************************)
InFlight(i) == calls[i].state \in {"pending", "settled"}
IsSettled(i) == calls[i].state = "settled"
Answered(c) == c.exchange.kind = "response" /\ c.exchange.status = 200
FailedWithStatus(c) == c.exchange.kind = "response" /\ c.exchange.status >= 400

\* the JSON document in the body of the answer, read from a string when the
\* backend sent it as one
BackendDocument(c) ==
  LET data == AxiosData(c.config, c.exchange.body)
  IN  IF IsString(data) THEN JSONparse(data.s) ELSE Returned(data)

\* the call was answered with a report: a mapping from section names to values
HasReport(c) ==
  /\ Answered(c)
  /\ ~BackendDocument(c).threw
  /\ BackendDocument(c).value.t = "object"
Report(c) == BackendDocument(c).value.members

ResolvedWithText(c, text) == c.outcome = Resolved(Envelope(TextItem(text)))
NotFoundText(section) ==
  Str(<<"Section '">> \o section \o <<"' not found in report.">>)

\* text occurs in s
Contains(s, text) ==
  \E k \in 1..(Len(s) - Len(text) + 1) : SubSeq(s, k, k + Len(text) - 1) = text

\* the bytes a base64 text stands for
Base64Index(ch) == CHOOSE n \in 0..63 : Base64Alphabet[n + 1] = ch
RECURSIVE Base64Decode(_)
Base64Decode(chars) ==
  IF chars = <<>> THEN <<>>
  ELSE LET a == Base64Index(chars[1])
           b == Base64Index(chars[2])
           first == a * 4 + b \div 16
       IN  IF chars[3] = "=" THEN << first >>
           ELSE LET c == Base64Index(chars[3])
                    second == (b % 16) * 16 + c \div 4
                IN  IF chars[4] = "=" THEN << first, second >>
                    ELSE << first, second, (c % 4) * 64 + Base64Index(chars[4]) >>
                         \o Base64Decode(SubSeq(chars, 5, Len(chars)))

(***************************************************************************)
(* C1: for every section name that is a key of the report, whatever value  *)
(* it maps to (0, false, "" and null included), getJsonReportSection       *)
(* resolves with one text item whose text is the indented JSON of          *)
(* report[section].                                                        *)
(***************************************************************************)
C1_PresentSectionIsSerialized ==
  \A i \in DOMAIN calls :
    ( /\ IsSettled(i)
      /\ IsTool(calls[i], "getJsonReportSection")
      /\ HasReport(calls[i])
      /\ HasOwn(Report(calls[i]), calls[i].args.section) )
    => ResolvedWithText(calls[i],
         Str(Serialize(OwnValue(Report(calls[i]), calls[i].args.section), 0)))

(***************************************************************************)
(* C2: for every section name that is not a key of the report,             *)
(* getJsonReportSection resolves with exactly one text item whose text is  *)
(* Section '<section>' not found in report.                                *)
(***************************************************************************)
C2_AbsentSectionIsNotFound ==
  \A i \in DOMAIN calls :
    ( /\ IsSettled(i)
      /\ IsTool(calls[i], "getJsonReportSection")
      /\ HasReport(calls[i])
      /\ ~HasOwn(Report(calls[i]), calls[i].args.section) )
    => ResolvedWithText(calls[i], NotFoundText(calls[i].args.section))

(***************************************************************************)
(* C3: for the same hash and the same backend report, the list that        *)
(* getJsonReportSections returns is exactly the ordered list of top-level  *)
(* keys of the report that getJsonReport returns.                          *)
(***************************************************************************)
\* the envelope the getJsonReport handler produces for the exchange of c
GetJsonReportOutcome(c) ==
  HandlerOutcome([c EXCEPT !.tool = Tool(<<"getJsonReport">>, <<>>)], c.exchange)

\* the top-level keys of the report written in a text that getJsonReport
\* returned; a report that came as a string is a JSON string in that text
KeysOfReportText(text) ==
  LET v == JSONparse(text).value
      doc == IF IsString(v) THEN JSONparse(v.s).value ELSE v
  IN  KeysOf(doc.members)

C3_SectionsAreTheKeysOfTheReport ==
  \A i \in DOMAIN calls :
    ( /\ IsSettled(i)
      /\ IsTool(calls[i], "getJsonReportSections")
      /\ HasReport(calls[i]) )
    => /\ calls[i].outcome.state = "resolved"
       /\ Len(calls[i].outcome.value.content) = 1
       /\ calls[i].outcome.value.content[1].type = "text"
       /\ GetJsonReportOutcome(calls[i]).state = "resolved"
       /\ LET listed == JSONparse(calls[i].outcome.value.content[1].text.s)
              keys == KeysOfReportText(
                        GetJsonReportOutcome(calls[i]).value.content[1].text.s)
          IN  /\ ~listed.threw
              /\ listed.value = Arr([k \in 1..Len(keys) |-> Str(keys[k])])

C3_Witness ==
  \E i \in DOMAIN calls :
    /\ IsSettled(i)
    /\ IsTool(calls[i], "getJsonReportSections")
    /\ HasReport(calls[i])
    /\ Len(Report(calls[i])) >= 2
    /\ calls[i].outcome.state = "resolved"

(***************************************************************************)
(* C4: listAllHashes returns the MD5 fields of the items of `content`, in  *)
(* order, and the empty list when `content` is absent.                     *)
(***************************************************************************)
\* report is a page of scans: a mapping whose `content`, when there is one,
\* is a list of items that each carry an MD5
IsScansPage(report) ==
  HasOwn(report, <<"content">>) =>
    LET content == OwnValue(report, <<"content">>)
    IN  /\ content.t = "array"
        /\ \A k \in 1..Len(content.items) :
             /\ content.items[k].t = "object"
             /\ HasOwn(content.items[k].members, <<"MD5">>)
HasScansPage(c) == HasReport(c) /\ IsScansPage(Report(c))

MD5sIn(report) ==
  IF HasOwn(report, <<"content">>)
  THEN LET items == OwnValue(report, <<"content">>).items
       IN  [k \in 1..Len(items) |-> OwnValue(items[k].members, <<"MD5">>)]
  ELSE <<>>
MD5sOf(c) == MD5sIn(Report(c))

C4_ListAllHashesProjectsMD5 ==
  \A i \in DOMAIN calls :
    (IsSettled(i) /\ IsTool(calls[i], "listAllHashes") /\ Answered(calls[i])) =>
      LET document == BackendDocument(calls[i]) IN
      (~document.threw /\ document.value.t = "object"
         /\ IsScansPage(document.value.members)) =>
        /\ calls[i].outcome.state = "resolved"
        /\ Len(calls[i].outcome.value.content) = 1
        /\ calls[i].outcome.value.content[1].type = "text"
        /\ JSONparse(calls[i].outcome.value.content[1].text.s)
             = Returned(Arr(MD5sIn(document.value.members)))

C4_Witness ==
  \E i \in DOMAIN calls :
    /\ IsSettled(i)
    /\ IsTool(calls[i], "listAllHashes")
    /\ HasScansPage(calls[i])
    /\ MD5sOf(calls[i]) = << Str(<<"a">>), Str(<<"b">>) >>
    /\ calls[i].outcome.state = "resolved"
    /\ calls[i].outcome.value.content[1].text
         = Str(<< "[", "\n", "  ", "\"", "a", "\"", ",",
                  "\n", "  ", "\"", "b", "\"", "\n", "]" >>)

(***************************************************************************)
(* C5: for every client method, generatePdfReport and uploadFile included, *)
(* an HTTP failure that carries a response body makes the method fail with *)
(* the message MobSF API Error: followed by the pretty-printed JSON of     *)
(* that body.                                                              *)
(***************************************************************************)
C5_FailureCarriesThePrettyPrintedBody ==
  \A i \in DOMAIN calls :
    ( /\ IsSettled(i)
      /\ FailedWithStatus(calls[i])
      /\ calls[i].exchange.body.s # <<>> )
    => calls[i].outcome =
         Rejected(Error(<<"MobSF API Error: ">>
           \o Serialize(JSONparse(calls[i].exchange.body.s).value, 0)))

(***************************************************************************)
(* C6: generatePdfReport(hash) resolves with exactly one resource item     *)
(* whose blob base64-decodes to the bytes the backend returned, whose MIME *)
(* type is application/pdf and whose URI contains the hash.                *)
(***************************************************************************)
C6_PdfIsABase64Resource ==
  \A i \in DOMAIN calls :
    ( /\ IsSettled(i)
      /\ IsTool(calls[i], "generatePdfReport")
      /\ Answered(calls[i]) )
    => /\ calls[i].outcome.state = "resolved"
       /\ Len(calls[i].outcome.value.content) = 1
       /\ LET item == calls[i].outcome.value.content[1]
          IN  /\ item.type = "resource"
              /\ Base64Decode(item.resource.blob) = calls[i].exchange.body.bytes
              /\ item.resource.mimeType = <<"application/pdf">>
              /\ Contains(item.resource.uri, calls[i].args.hash)

C6_Witness ==
  \E i \in DOMAIN calls :
    /\ IsSettled(i)
    /\ IsTool(calls[i], "generatePdfReport")
    /\ Answered(calls[i])
    /\ calls[i].args.hash = <<"h2">>
    /\ Len(calls[i].exchange.body.bytes) = 2
    /\ calls[i].outcome.state = "resolved"
    /\ Len(calls[i].outcome.value.content[1].resource.blob) = 4

(***************************************************************************)
(* C7: when MOBSF_URL or MOBSF_API_KEY is missing (unset or empty) the     *)
(* process exits with status 1 before the client is created, before any    *)
(* tool is registered and before the transport is connected; no tool call  *)
(* is ever served.                                                         *)
(***************************************************************************)
ConfigurationMissing == ~Truthy(env.MOBSF_URL) \/ ~Truthy(env.MOBSF_API_KEY)

C7_MissingConfigurationExitsBeforeServing ==
  ConfigurationMissing =>
    /\ pc \in {"checkUrl", "checkKey", "exited"}
    /\ ~Truthy(env.MOBSF_URL) => pc # "checkKey"
    /\ pc = "exited" => exitCode = 1
    /\ mobsfClient = Undefined
    /\ registered = <<>>
    /\ \A i \in DOMAIN calls : calls[i] = Idle

C7_Witness ==
  /\ Truthy(env.MOBSF_URL)
  /\ ~Truthy(env.MOBSF_API_KEY)
  /\ pc = "exited"
  /\ exitCode = 1

(***************************************************************************)
(* C8: the upload request has a multipart body and no Content-Type other   *)
(* than the one derived from that body; every other POST request has a     *)
(* URL-encoded form body and Content-Type:                                 *)
(* application/x-www-form-urlencoded.                                      *)
(***************************************************************************)
HeaderIs(c, name, value) ==
  name \in DOMAIN c.config.headers /\ c.config.headers[name] = value

\* name=value pairs in which the reserved characters are escaped
IsFormBody(data) ==
  /\ data.t = "string"
  /\ data.s # <<>>
  /\ \E k \in 1..Len(data.s) : data.s[k] = "="
  /\ \A k \in 1..Len(data.s) : data.s[k] \notin {"/", " ", "?", "#"}

IsMultipartUpload(c) ==
  /\ c.config.data.t = "formdata"
  /\ DOMAIN c.config.headers = {"Authorization", "X-Mobsf-Api-Key", "content-type"}
  /\ c.config.headers["content-type"]
       = <<"multipart/form-data; boundary=">> \o c.config.data.boundary

C8_EveryOtherPostHasAFormBody ==
  \A i \in DOMAIN calls :
    (InFlight(i) /\ calls[i].config.method = "POST") =>
      IF IsTool(calls[i], "uploadFile") THEN IsMultipartUpload(calls[i])
      ELSE /\ HeaderIs(calls[i], "Content-Type", FormContentType)
           /\ IsFormBody(calls[i].config.data)

\* C8 as amended: the upload request has a multipart body and no
\* Content-Type other than the one derived from it; every other POST request
\* carries Content-Type: application/x-www-form-urlencoded, and its body is a
\* URL-encoded form, except for getScanTasks, which is sent without a body.
C8_EveryOtherPostIsFormTyped ==
  \A i \in DOMAIN calls :
    (InFlight(i) /\ calls[i].config.method = "POST") =>
      IF IsTool(calls[i], "uploadFile") THEN IsMultipartUpload(calls[i])
      ELSE /\ HeaderIs(calls[i], "Content-Type", FormContentType)
           /\ IF IsTool(calls[i], "getScanTasks")
              THEN calls[i].config.data = Undefined
              ELSE IsFormBody(calls[i].config.data)

C8_Witness ==
  \E i \in DOMAIN calls :
    /\ InFlight(i)
    /\ IsTool(calls[i], "getScanTasks")
    /\ calls[i].config.method = "POST"
    /\ calls[i].config.data = Undefined
    /\ HeaderIs(calls[i], "Content-Type", FormContentType)

(***************************************************************************)
(* C9: every outgoing request carries both Authorization and               *)
(* X-Mobsf-Api-Key, each with exactly the API key given at construction.   *)
(***************************************************************************)
C9_BothKeyHeadersOnEveryRequest ==
  \A i \in DOMAIN calls :
    InFlight(i) =>
      /\ HeaderIs(calls[i], "Authorization", env.MOBSF_API_KEY.s)
      /\ HeaderIs(calls[i], "X-Mobsf-Api-Key", env.MOBSF_API_KEY.s)

C9_Witness ==
  \E i \in DOMAIN calls :
    /\ InFlight(i)
    /\ calls[i].config.method = "GET"
    /\ HeaderIs(calls[i], "Authorization", <<"key1">>)
    /\ HeaderIs(calls[i], "X-Mobsf-Api-Key", <<"key1">>)

(***************************************************************************)
(* C10: the shortcut tool getJsonSection_<name> fetches the full report    *)
(* and returns that section's value; when the section is absent it still   *)
(* resolves, with a null/undefined value, and never with the `not found`   *)
(* message of the generic section tool.                                    *)
(***************************************************************************)
C10_ShortcutReturnsTheSectionOrNothing ==
  \A i \in DOMAIN calls :
    (IsSettled(i) /\ IsSectionTool(calls[i]) /\ HasReport(calls[i])) =>
      LET section == calls[i].tool.section IN
      /\ \E k \in 1..Len(jsonSections) : jsonSections[k] = section
      /\ calls[i].config.url = mobsfClient.baseUrl \o <<"/", "api/v1/report_json">>
      /\ calls[i].outcome.state = "resolved"
      /\ Len(calls[i].outcome.value.content) = 1
      /\ calls[i].outcome.value.content[1].type = "text"
      /\ LET text == calls[i].outcome.value.content[1].text IN
         /\ text # NotFoundText(section)
         /\ IF HasOwn(Report(calls[i]), section)
            THEN /\ IsString(text)
                 /\ JSONparse(text.s) = Returned(OwnValue(Report(calls[i]), section))
            ELSE text \in {Undefined, Str(<<"null">>)}

C10_Witness ==
  \E i \in DOMAIN calls :
    /\ IsSettled(i)
    /\ calls[i].tool = SectionTool(<<"host_os">>)
    /\ HasReport(calls[i])
    /\ ~HasOwn(Report(calls[i]), <<"host_os">>)
    /\ ResolvedWithText(calls[i], Undefined)


\* the tools whose answer is the backend result itself, neither a part of a
\* report nor a PDF
AnswersWithTheResult(c) ==
  /\ ~IsSectionTool(c)
  /\ c.tool.name \notin { <<"getJsonReportSection">>, <<"getJsonReportSections">>,
                          <<"listAllHashes">>, <<"generatePdfReport">> }

\* C11: whenever the backend result of a tool answering with a text item is
\* not already a string, the text of the answer is the indented JSON
\* serialization of that result, so the text is a string.
C11_NonStringResultIsSerialized ==
  \A i \in Slots :
    (IsSettled(i) /\ Answered(calls[i]) /\ AnswersWithTheResult(calls[i])) =>
      LET result == AxiosData(calls[i].config, calls[i].exchange.body)
      IN  ~IsString(result) =>
            /\ ResolvedWithText(calls[i], JSONstringify(result))
            /\ IsString(calls[i].outcome.value.content[1].text)

\* the call gives parameter p with a value of the type
HasParameter(c, p, type) ==
  HasOwn(c.args, <<p>>) /\ OwnValue(c.args, <<p>>).t = type

\* the arguments of the call lack a parameter its tool requires or give it a
\* value of another type than the tool declares
ArgumentsFail(c) ==
  \/ IsTool(c, "uploadFile") /\ ~HasParameter(c, "file", "string")
  \/ /\ IsTool(c, "getRecentScans")
     /\ ~(HasParameter(c, "page", "number") /\ HasParameter(c, "pageSize", "number"))

\* C12: a tool call whose arguments fail the schema check is rejected before
\* its handler runs: no client method is invoked and no HTTP request is
\* issued for it.
C12_InvalidArgumentsAreRejectedBeforeTheHandler ==
  \A i \in Slots :
    (calls[i].state # "idle" /\ ArgumentsFail(calls[i])) =>
      /\ calls[i].state = "rejected"
      /\ requests[i] = 0

\* getRecentScans was called with the page as a string and was refused
C12_Witness ==
  \E i \in Slots :
    /\ calls[i].state = "rejected"
    /\ IsTool(calls[i], "getRecentScans")
    /\ HasParameter(calls[i], "page", "string")
    /\ requests[i] = 0

\* the call in slot i of the next state has just settled without a 2xx answer
FailsNow(i) ==
  /\ calls[i].state = "pending"
  /\ calls'[i].state = "settled"
  /\ ~Answered(calls'[i])

\* C13: once the server is serving, no error of a call ends the process: the
\* failing call is rejected and the server keeps serving; the process exits
\* only for a missing configuration value or a failed bootstrap.
C13_OnlyBootstrapFailuresExit ==
  [][ /\ pc = "serving" => (pc' = "serving" /\ exitCode' = -1)
      /\ \A i \in Slots : FailsNow(i) => calls'[i].outcome.state = "rejected"
      /\ (pc # "exited" /\ pc' = "exited") =>
           \/ ConfigurationMissing /\ pc \in {"checkUrl", "checkKey"}
           \/ pc = "register" /\ Len(registered) = Len(Registrations) ]_vars

\* a call failed with an error status, was rejected, and the server serves
C13_Witness ==
  \E i \in Slots :
    /\ pc = "serving"
    /\ exitCode = -1
    /\ IsSettled(i)
    /\ FailedWithStatus(calls[i])
    /\ calls[i].outcome.state = "rejected"

\* the names of the base tools
BaseToolNames ==
  { <<"uploadFile">>, <<"getScanLogs">>, <<"getJsonReport">>,
    <<"getJsonReportSection">>, <<"getJsonReportSections">>,
    <<"getRecentScans">>, <<"searchScanResult">>, <<"deleteScan">>,
    <<"getScorecard">>, <<"generatePdfReport">>, <<"viewSource">>,
    <<"getScanTasks">>, <<"compareApps">>, <<"suppressByRule">>,
    <<"suppressByFiles">>, <<"listSuppressions">>, <<"deleteSuppression">>,
    <<"listAllHashes">> }
\* the names of the section shortcuts, one for each entry of the section list
SectionToolNames ==
  { <<"getJsonSection_">> \o jsonSections[k] : k \in 1..Len(jsonSections) }
ExpectedToolNames == BaseToolNames \cup SectionToolNames
RegisteredNames == { registered[k].name : k \in 1..Len(registered) }

\* C14: the registered tools are exactly the 18 base tools and one tool
\* getJsonSection_<name> for each entry of the section list, and the
\* registered names are pairwise distinct.
C14_RegisteredToolsAreBaseAndSectionTools ==
  pc = "serving" =>
    /\ Cardinality(BaseToolNames) = 18
    /\ Len(registered) = 18 + Len(jsonSections)
    /\ Cardinality(RegisteredNames) = Len(registered)
    /\ RegisteredNames = ExpectedToolNames

\* the server serves with the base tools and the shortcuts registered
C14_Witness ==
  /\ pc = "serving"
  /\ Len(registered) > 18
  /\ registered[18].name = <<"listAllHashes">>
  /\ registered[19].name = <<"getJsonSection_", "version">>
  /\ registered[Len(registered)].name = <<"getJsonSection_", "host_os">>

\* C15: every invocation with valid arguments issues exactly one HTTP
\* request; once the request has failed no further request is issued for the
\* call, and the failure is reported as the call's rejection.
C15_OneRequestPerInvocationAndNoRetry ==
  [][ \A i \in Slots :
        /\ InFlight(i)' => requests'[i] = 1
        /\ (IsSettled(i) /\ ~Answered(calls[i])) =>
             /\ requests'[i] <= requests[i]
             /\ calls[i].outcome.state = "rejected"
             /\ calls'[i].state \in {"settled", "idle"} ]_vars

\* a call whose one request met a refused connection was rejected
C15_Witness ==
  \E i \in Slots :
    /\ IsSettled(i)
    /\ calls[i].exchange = ConnectionRefused
    /\ requests[i] = 1
    /\ calls[i].outcome.state = "rejected"

(***************************************************************************)
(* Calls in flight at the same time, one of them never answered: the       *)
(* server with several slots, of which the backend leaves the requests of  *)
(* the slots in Unanswered without any response                            *)
(***************************************************************************)
MaxConcurrent == 2
ConcurrentSlots == 1..MaxConcurrent
Unanswered == { 1 }
AnsweredSlots == ConcurrentSlots \ Unanswered

InitConcurrent ==
  /\ env \in [MOBSF_URL : UrlValues, MOBSF_API_KEY : KeyValues]
  /\ pc = "checkUrl"
  /\ exitCode = -1
  /\ mobsfClient = Undefined
  /\ registered = <<>>
  /\ calls = [i \in ConcurrentSlots |-> Idle]
  /\ requests = [i \in ConcurrentSlots |-> 0]

\* the arrival of the response to the request of slot i
ResponseArrives(i) == BackendAnswers(i) \/ BackendFails(i)

NextConcurrent ==
  \/ CheckUrl
  \/ CheckKey
  \/ CreateClient
  \/ RegisterTool
  \/ Main
  \/ MainFails
  \/ \E i \in ConcurrentSlots : tool_getScanLogs(i)
  \/ \E i \in ConcurrentSlots : tool_getScanTasks(i)
  \/ \E i \in AnsweredSlots : BackendAnswers(i)
  \/ \E i \in AnsweredSlots : BackendFails(i)
  \/ \E i \in AnsweredSlots : Deliver(i)

\* the event loop runs the continuation of every response that arrives and
\* writes the result of every settled call; the backend answers the slots
\* outside Unanswered
SpecConcurrent ==
  /\ InitConcurrent
  /\ [][NextConcurrent]_vars
  /\ \A i \in AnsweredSlots : WF_vars(ResponseArrives(i)) /\ WF_vars(Deliver(i))

\* C16: a call the backend never answers stays pending forever, while every
\* other call, started before or after it, can still be dispatched and
\* completes once its own response arrives.
C16_AnUnansweredCallBlocksNoOtherCall ==
  /\ \A h \in Unanswered :
       [](calls[h].state = "pending" => [](calls[h].state = "pending"))
  /\ \A h \in Unanswered, i \in AnsweredSlots :
       []((pc = "serving" /\ calls[h].state = "pending" /\ calls[i].state = "idle")
            => ENABLED tool_getScanLogs(i))
  /\ \A i \in AnsweredSlots :
       (calls[i].state = "pending") ~> (calls[i].state = "idle")

\* one call waits for an answer that never comes while another call, started
\* after it, has been answered
C16_Witness ==
  \E h \in Unanswered, i \in AnsweredSlots :
    /\ calls[h].state = "pending"
    /\ requests[h] = 1
    /\ calls[i].state = "settled"
    /\ Answered(calls[i])

\* the request of the call failed and brought no response body: either no
\* response arrived, or the response of an error status has an empty body
FailedWithoutBody(c) ==
  \/ c.exchange.kind = "noResponse"
  \/ FailedWithStatus(c) /\ c.exchange.body = Str(<<>>)
\* the message of the failure underneath
UnderlyingMessage(c) ==
  IF c.exchange.kind = "noResponse" THEN c.exchange.message
  ELSE <<"Request failed with status code ", ToString(c.exchange.status)>>

C18_OtherFailuresAreRethrownUnchanged ==
  \A i \in DOMAIN calls :
    (IsSettled(i) /\ calls[i].exchange.kind = "thrown") =>
      /\ ~calls[i].exchange.error.isAxiosError
      /\ calls[i].outcome = Rejected(calls[i].exchange.error)

\* a TypeError was thrown while the request of a call was made, and the call
\* was rejected with it
C18_Witness ==
  \E i \in DOMAIN calls :
    /\ IsSettled(i)
    /\ calls[i].exchange = InvalidUrl
    /\ calls[i].outcome.state = "rejected"
    /\ calls[i].outcome.error.name = "TypeError"
    /\ calls[i].outcome.error.message = <<"Invalid URL">>

EndsWithSlash(s) == s # <<>> /\ s[Len(s)] = "/"

\* C19: the client constructed with a base URL ending in "/" stores it
\* without that trailing slash, any other base URL is stored unchanged, and
\* the API key is stored as given.
C19_ClientStoresUrlWithoutTrailingSlash ==
  mobsfClient # Undefined =>
    /\ EndsWithSlash(env.MOBSF_URL.s) =>
         /\ mobsfClient.baseUrl \o <<"/">> = env.MOBSF_URL.s
         /\ Len(mobsfClient.baseUrl) = Len(env.MOBSF_URL.s) - 1
    /\ ~EndsWithSlash(env.MOBSF_URL.s) => mobsfClient.baseUrl = env.MOBSF_URL.s
    /\ mobsfClient.apiKey = env.MOBSF_API_KEY.s

\* the client was constructed with a URL that ends in a slash
C19_Witness ==
  /\ mobsfClient # Undefined
  /\ EndsWithSlash(env.MOBSF_URL.s)
  /\ mobsfClient.baseUrl = <<"http://mobsf:8000">>
  /\ mobsfClient.apiKey = <<"key1">>

\* the backend capability a request asks for: the path under the base URL
Endpoint(c) ==
  SubSeq(c.config.url, Len(mobsfClient.baseUrl) + 1, Len(c.config.url))

\* the capability each tool stands for, for the tools that have one of their
\* own; no two tools share one
OwnCapability ==
  (<<"uploadFile">> :> <<"/", "api/v1/upload">>)
  @@ (<<"getScanLogs">> :> <<"/", "api/v1/scan_logs">>)
  @@ (<<"getJsonReport">> :> <<"/", "api/v1/report_json">>)
  @@ (<<"getRecentScans">> :> <<"/", "api/v1/scans">>)
  @@ (<<"searchScanResult">> :> <<"/", "api/v1/search">>)
  @@ (<<"deleteScan">> :> <<"/", "api/v1/delete_scan">>)
  @@ (<<"getScorecard">> :> <<"/", "api/v1/scorecard">>)
  @@ (<<"generatePdfReport">> :> <<"/", "api/v1/download_pdf">>)
  @@ (<<"viewSource">> :> <<"/", "api/v1/view_source">>)
  @@ (<<"getScanTasks">> :> <<"/", "api/v1/tasks">>)
  @@ (<<"compareApps">> :> <<"/", "api/v1/compare">>)
  @@ (<<"suppressByRule">> :> <<"/", "api/v1/suppress_by_rule">>)
  @@ (<<"suppressByFiles">> :> <<"/", "api/v1/suppress_by_files">>)
  @@ (<<"listSuppressions">> :> <<"/", "api/v1/list_suppressions">>)
  @@ (<<"deleteSuppression">> :> <<"/", "api/v1/delete_suppression">>)
OneToOne(f) == \A a, b \in DOMAIN f : f[a] = f[b] => a = b
NoCapabilityIsShared == OneToOne(OwnCapability)

\* the tools that answer with a part of the report
IsReportDerived(c) ==
  \/ IsSectionTool(c)
  \/ c.tool.name \in { <<"getJsonReportSection">>, <<"getJsonReportSections">> }
HasOwnCapability(c) ==
  /\ c.tool.name \in DOMAIN OwnCapability
  /\ Endpoint(c) = OwnCapability[c.tool.name]

\* C20 as stated: every tool invokes a client capability of its own, except
\* the report-derived tools (section lookup, section listing, section
\* shortcuts), which all invoke generateJsonReport.
C20_MappingIsOneToOneExceptReportTools ==
  /\ NoCapabilityIsShared
  /\ \A i \in DOMAIN calls :
       InFlight(i) =>
         IF IsReportDerived(calls[i])
         THEN Endpoint(calls[i]) = OwnCapability[<<"getJsonReport">>]
         ELSE HasOwnCapability(calls[i])

\* C20, amended: every tool invokes a client capability of its own, except
\* the report-derived tools, which all invoke generateJsonReport, and
\* listAllHashes, which invokes getRecentScans as the getRecentScans tool does.
C20_MappingIsOneToOneExceptDerivedTools ==
  /\ NoCapabilityIsShared
  /\ \A i \in DOMAIN calls :
       InFlight(i) =>
         CASE IsReportDerived(calls[i]) ->
                Endpoint(calls[i]) = OwnCapability[<<"getJsonReport">>]
           [] IsTool(calls[i], "listAllHashes") ->
                Endpoint(calls[i]) = OwnCapability[<<"getRecentScans">>]
           [] OTHER -> HasOwnCapability(calls[i])

\* listAllHashes is in flight with a request for the recent scans
C20_Witness ==
  \E i \in DOMAIN calls :
    /\ InFlight(i)
    /\ IsTool(calls[i], "listAllHashes")
    /\ Endpoint(calls[i]) = <<"/", "api/v1/scans">>
    /\ calls[i].config.method = "GET"

\* the call in slot i is issued by the step
IsIssued(i) == calls[i].state = "idle" /\ calls'[i].state = "pending"
\* the page and the page size the call was given
PageOf(c) ==
  IF IsTool(c, "listAllHashes") THEN c.args.page ELSE OwnValue(c.args, <<"page">>).n
PageSizeOf(c) ==
  IF IsTool(c, "listAllHashes") THEN c.args.pageSize
  ELSE OwnValue(c.args, <<"pageSize">>).n
\* the paths of the capabilities other than the listing of recent scans
PostPaths ==
  { OwnCapability[name] : name \in DOMAIN OwnCapability \ { <<"getRecentScans">> } }

\* C21: listing recent scans is the only capability issued as a GET request;
\* it passes the page and the page size as the query parameters page and
\* page_size and has no body; every other capability is issued as a POST
\* request to its own fixed path under the base URL.
C21_OnlyTheScansListingIsAGet ==
  [][ \A i \in DOMAIN calls :
        IsIssued(i) =>
          IF calls'[i].tool.name \in { <<"getRecentScans">>, <<"listAllHashes">> }
          THEN /\ calls'[i].config.method = "GET"
               /\ calls'[i].config.url =
                    mobsfClient.baseUrl \o <<"/", "api/v1/scans">>
               /\ calls'[i].config.params =
                    [page |-> PageOf(calls'[i]), page_size |-> PageSizeOf(calls'[i])]
               /\ calls'[i].config.data = Undefined
          ELSE /\ calls'[i].config.method = "POST"
               /\ calls'[i].config.params = Undefined
               /\ Endpoint(calls'[i]) \in PostPaths
               /\ calls'[i].config.url = mobsfClient.baseUrl \o Endpoint(calls'[i])
               /\ IF IsReportDerived(calls'[i])
                  THEN Endpoint(calls'[i]) = OwnCapability[<<"getJsonReport">>]
                  ELSE Endpoint(calls'[i]) = OwnCapability[calls'[i].tool.name] ]_vars

\* the listing of recent scans is in flight as a GET with both parameters
C21_Witness ==
  \E i \in DOMAIN calls :
    /\ InFlight(i)
    /\ IsTool(calls[i], "getRecentScans")
    /\ calls[i].config.method = "GET"
    /\ calls[i].config.params = [page |-> 1, page_size |-> 10]
    /\ calls[i].config.data = Undefined

UnshapableBodies ==
  { Str(<<"null">>), Str(<<"<html>">>),
    Str(Serialize(ScansPage(Num(5)), 0)),
    Str(Serialize(ScansPage(Arr(<< Null >>)), 0)) }
ShapingThrows(c) ==
  /\ Answered(c)
  /\ c.exchange.body \in UnshapableBodies
  /\ IsReportDerived(c) \/ IsTool(c, "listAllHashes")
\* a settled promise: resolved with an envelope of one item, or rejected
IsEnvelopeOrRejection(outcome) ==
  \/ outcome.state = "rejected"
  \/ /\ outcome.state = "resolved"
     /\ Len(outcome.value.content) = 1
     /\ outcome.value.content[1].type \in {"text", "resource"}

\* C23: once the client promise of a call settles, the promise of the handler
\* settles exactly once, resolved with a content envelope or rejected; an
\* exception thrown while the result is shaped rejects the call and never
\* leaves it pending.
C23_HandlerPromiseSettlesOnce ==
  [][ \A i \in DOMAIN calls :
        /\ (calls[i].state = "pending" /\ calls'[i] # calls[i]) =>
             /\ calls'[i].state = "settled"
             /\ IsEnvelopeOrRejection(calls'[i].outcome)
             /\ ShapingThrows(calls'[i]) =>
                  /\ calls'[i].outcome.state = "rejected"
                  /\ calls'[i].outcome.error.name \in {"TypeError", "SyntaxError"}
        /\ calls[i].state = "settled" =>
             calls'[i] = calls[i] \/ calls'[i] = Idle ]_vars

\* the section tool was answered with a text that is not JSON and rejected
\* with the SyntaxError of JSON.parse
C23_Witness ==
  \E i \in DOMAIN calls :
    /\ IsSettled(i)
    /\ IsTool(calls[i], "getJsonReportSection")
    /\ calls[i].exchange.body = Str(<<"<html>">>)
    /\ calls[i].outcome = Rejected(SyntaxError)

(***************************************************************************)
(* Several calls of the section tools and of the PDF tool in flight, the   *)
(* responses arriving in any order; sections, reports and PDF bodies are   *)
(* drawn from samples that differ from call to call                        *)
(***************************************************************************)
SampledSections == { <<"size">>, <<"exported_count">> }
SampledReplies ==
  { Str(Serialize(ReportA, 0)), Str(Serialize(Str(Serialize(ReportC, 0)), 0)),
    Buf(<< 0 >>), Buf(<< 201 >>) }

NextInterleaved ==
  \/ CheckUrl
  \/ CheckKey
  \/ CreateClient
  \/ RegisterTool
  \/ Main
  \/ MainFails
  \/ \E i \in ConcurrentSlots :
       tool_getJsonReportSection(i) /\ calls'[i].args.section \in SampledSections
  \/ \E i \in ConcurrentSlots :
       tool_getJsonSection(i) /\ calls'[i].tool.section \in SampledSections
  \/ \E i \in ConcurrentSlots : tool_generatePdfReport(i)
  \/ \E i \in ConcurrentSlots :
       BackendAnswers(i) /\ calls'[i].exchange.body \in SampledReplies
  \/ \E i \in ConcurrentSlots : Deliver(i)

SpecInterleaved == InitConcurrent /\ [][NextInterleaved]_vars

\* the envelope the call's own arguments and own response ask for
IsOwnEnvelope(c) ==
  LET OfSection(document, section) ==
        \/ ResolvedWithText(c, Str(Serialize(OwnValue(document.value.members, section), 0)))
        \/ /\ IsTool(c, "getJsonReportSection")
           /\ ResolvedWithText(c, NotFoundText(section))
  IN  CASE IsSectionTool(c) -> OfSection(BackendDocument(c), c.tool.section)
        [] IsTool(c, "getJsonReportSection") ->
             OfSection(BackendDocument(c), c.args.section)
        [] IsTool(c, "generatePdfReport") ->
             /\ c.outcome.state = "resolved"
             /\ c.outcome.value.content[1].resource.uri
                  = <<"mobsf_report_">> \o c.args.hash \o <<".pdf">>
             /\ Base64Decode(c.outcome.value.content[1].resource.blob)
                  = c.exchange.body.bytes
        [] OTHER -> TRUE

\* C24: with several calls in flight and the responses arriving in any
\* order, the envelope of each call comes from the arguments and the response
\* of that call only: the section of a shortcut, the section asked of the
\* section tool and the hash in the PDF URI are never those of another call.
C24_EnvelopeComesFromTheCallItself ==
  \A i \in DOMAIN calls :
    (IsSettled(i) /\ Answered(calls[i])) => IsOwnEnvelope(calls[i])

\* two shortcuts for different sections and answered with different reports
\* are settled together, each with its own section of its own report
C24_Witness ==
  \E i, j \in DOMAIN calls :
    /\ i < j
    /\ IsSettled(i) /\ IsSettled(j)
    /\ calls[i].tool.section = <<"exported_count">>
    /\ calls[j].tool.section = <<"size">>
    /\ calls[i].exchange.body # calls[j].exchange.body
    /\ ResolvedWithText(calls[i], Str(<<"0">>))
    /\ ResolvedWithText(calls[j], Str(<<"\"", "3MB", "\"">>))

(***************************************************************************)
(* The client constructed from base URLs that end with any number of       *)
(* slashes up to MaxSlashes, serving calls of getScanLogs and of           *)
(* listAllHashes                                                           *)
(***************************************************************************)
MaxSlashes == 2
SlashedUrls ==
  { Str(<<"http://mobsf:8000">> \o [k \in 1..n |-> "/"]) : n \in 0..MaxSlashes }

InitSlashes ==
  /\ env \in [MOBSF_URL : SlashedUrls, MOBSF_API_KEY : { Str(<<"key1">>) }]
  /\ pc = "checkUrl"
  /\ exitCode = -1
  /\ mobsfClient = Undefined
  /\ registered = <<>>
  /\ calls = [i \in Slots |-> Idle]
  /\ requests = [i \in Slots |-> 0]

NextSlashes ==
  \/ CheckUrl
  \/ CheckKey
  \/ CreateClient
  \/ RegisterTool
  \/ Main
  \/ MainFails
  \/ \E i \in Slots : tool_getScanLogs(i)
  \/ \E i \in Slots : tool_listAllHashes(i)
  \/ \E i \in Slots : BackendAnswers(i)
  \/ \E i \in Slots : Deliver(i)

SpecSlashes == InitSlashes /\ [][NextSlashes]_vars

\* the last two fragments of the URL before its path are not both slashes
OneSlashBeforePath(url) ==
  /\ Len(url) >= 3
  /\ url[Len(url) - 1] = "/"
  /\ url[Len(url) - 2] # "/"

\* C25: whatever base URL the constructor is given, also one that ends with
\* several slashes, the stored base URL does not end with a slash, so every
\* request URL is the base followed by the fixed path with exactly one slash
\* between them.
C25_StoredUrlNeverEndsWithSlash ==
  mobsfClient # Undefined =>
    /\ ~EndsWithSlash(mobsfClient.baseUrl)
    /\ \A i \in DOMAIN calls :
         InFlight(i) => OneSlashBeforePath(calls[i].config.url)

(***************************************************************************)
(* The generic section tool and the shortcut of the same section, called   *)
(* for every section of the list against the same reports                  *)
(***************************************************************************)
\* values of a section: one of each JSON type that JavaScript takes as true,
\* and one it takes as false
SectionValues ==
  { Str(<<"1MB">>), Num(7), Bool(TRUE), Arr(<< Str(<<"INTERNET">>), Null >>),
    Obj(<< << <<"score">>, Num(0) >> >>), Num(0) }

\* a report in which the section has the value
ReportWith(section, value) ==
  Obj(<< << <<"version">>, Str(<<"v4">>) >>, << section, value >> >>)

\* bodies of a 2xx answer to /api/v1/report_json holding the section: the
\* report with each value, and a report encoded twice
SectionReplies(section) ==
  { Str(Serialize(ReportWith(section, value), 0)) : value \in SectionValues }
  \cup { Str(Serialize(Str(Serialize(ReportWith(section, Num(7)), 0)), 0)) }

\* getJsonReportSection called with a section of the list, no other call
\* being in flight
CallSectionOfList(i) ==
  \E hash \in OneHash, k \in 1..Len(jsonSections) :
    /\ \A j \in DOMAIN calls : calls[j].state = "idle"
    /\ Invoke(i, <<"getJsonReportSection">>,
              [hash |-> hash, section |-> jsonSections[k]],
              generateJsonReport(mobsfClient, hash))

\* the shortcut of the section that call i asks for, called with its hash
CallShortcutOfSameSection(j, i) ==
  /\ calls[i].state \in {"pending", "settled"}
  /\ Invoke(j, <<"getJsonSection_">> \o calls[i].args.section,
            [hash |-> calls[i].args.hash],
            generateJsonReport(mobsfClient, calls[i].args.hash))

\* the backend answers the call with a report that holds the section
ReportIsReturned(i) ==
  /\ calls[i].state = "pending"
  /\ \E body \in SectionReplies(IF IsSectionTool(calls[i])
                                 THEN calls[i].tool.section
                                 ELSE calls[i].args.section) :
       Settle(i, HttpResponse(200, body))

NextSections ==
  \/ CheckUrl
  \/ CheckKey
  \/ CreateClient
  \/ RegisterTool
  \/ Main
  \/ MainFails
  \/ CallSectionOfList(1)
  \/ CallShortcutOfSameSection(2, 1)
  \/ ReportIsReturned(1)
  \/ ReportIsReturned(2)
  \/ \E i \in ConcurrentSlots : Deliver(i)

SpecSections == InitConcurrent /\ [][NextSections]_vars

\* call j is the shortcut of the section that call i asks the generic tool
\* for, and both were answered with the same report, in which that section
\* is present with a truthy value
SameSectionOfSameReport(i, j) ==
  /\ IsSettled(i) /\ IsSettled(j)
  /\ calls[i].tool.name = <<"getJsonReportSection">>
  /\ calls[j].tool.name = <<"getJsonSection_">> \o calls[i].args.section
  /\ calls[j].args.hash = calls[i].args.hash
  /\ calls[j].exchange = calls[i].exchange
  /\ HasReport(calls[i])
  /\ HasOwn(Report(calls[i]), calls[i].args.section)
  /\ Truthy(OwnValue(Report(calls[i]), calls[i].args.section))

\* C26: for every section name of the fixed list and every report in which
\* that section is present with a truthy value, getJsonReportSection(hash,
\* section) and the shortcut getJsonSection_<section>(hash) return the same
\* content envelope for the same backend report.
C26_ShortcutEqualsGenericSectionTool ==
  \A i, j \in DOMAIN calls :
    SameSectionOfSameReport(i, j) =>
      /\ calls[i].outcome.state = "resolved"
      /\ calls[j].outcome = calls[i].outcome

C26_Witness ==
  \E i, j \in DOMAIN calls :
    /\ SameSectionOfSameReport(i, j)
    /\ calls[i].args.section = jsonSections[Len(jsonSections)]
    /\ IsString(calls[i].exchange.body)
    /\ calls[j].outcome.state = "resolved"
    /\ calls[j].outcome.value.content[1].text # Undefined

\* the document is a scans page whose `content` is an array of items, none
\* of them null
HasContentArray(document) ==
  /\ ~document.threw
  /\ document.value.t = "object"
  /\ HasOwn(document.value.members, <<"content">>)
  /\ LET IsArrayOfItems(content) ==
           /\ content.t = "array"
           /\ \A k \in 1..Len(content.items) : content.items[k] # Null
     IN  IsArrayOfItems(OwnValue(document.value.members, <<"content">>))

\* the MD5 of the item, null when it has none
MD5OrNull(item) ==
  IF item.t = "object" /\ HasOwn(item.members, <<"MD5">>)
  THEN OwnValue(item.members, <<"MD5">>)
  ELSE Null

\* the outcome is a text envelope holding one entry for each item of
\* `content`, at the item's position
ListsEveryItem(document, outcome) ==
  /\ outcome.state = "resolved"
  /\ Len(outcome.value.content) = 1
  /\ IsString(outcome.value.content[1].text)
  /\ LET SameLengthAndOrder(items, hashes) ==
           /\ ~hashes.threw
           /\ hashes.value.t = "array"
           /\ Len(hashes.value.items) = Len(items)
           /\ \A k \in 1..Len(items) : hashes.value.items[k] = MD5OrNull(items[k])
     IN  SameLengthAndOrder(OwnValue(document.value.members, <<"content">>).items,
                            JSONparse(outcome.value.content[1].text.s))

\* the call was answered with a scans page and resolved with the entries of
\* its `content`
ListedItemsOf(c) ==
  LET Listed(document) ==
        IF HasContentArray(document) /\ ListsEveryItem(document, c.outcome)
        THEN OwnValue(document.value.members, <<"content">>).items
        ELSE <<>>
  IN  Listed(BackendDocument(c))

C27_ToolsAreRegisteredBeforeServing ==
  [][/\ (pc # "serving" /\ pc' = "serving") =>
          /\ Len(registered) = 18 + Len(jsonSections)
          /\ RegisteredNames = ExpectedToolNames
          /\ registered' = registered
     /\ pc = "serving" => (pc' = "serving" /\ registered' = registered)]_vars

\* the server has served a call and holds every tool
C27_Witness ==
  /\ pc = "serving"
  /\ Len(registered) = 18 + Len(jsonSections)
  /\ \E i \in DOMAIN calls : IsSettled(i) /\ IsSectionTool(calls[i])

====
